---- MODULE Spec2Model ----
(***************************************************************************)
(* A model of the on-disk format layer, core/storage/sqlite3_ondisk.rs:    *)
(* the varint codec, the serial-type / value codec and the record decoder. *)
(*                                                                         *)
(* 64-bit integers keep their width: a u64 (or i64) is the sequence of its *)
(* eight bytes, least significant first, so that shifts, masks and         *)
(* additions are computed modulo 2^64 as the code computes them.  usize is *)
(* taken to be 64 bits wide.  A byte is a number in 0..255.                *)
(***************************************************************************)
EXTENDS Integers, Sequences, FiniteSets

VARIABLES
    harness,     \* which codec the run drives: "varint", "value" or "record"
    pc,          \* position of the run inside that codec's calls
    value,       \* write_varint: the u64 to encode
    buf,         \* the byte buffer written by write_varint / read by read_varint, read_value
    written,     \* write_varint: the byte count it returned
    decoded,     \* read_varint: its Result<(u64, usize)>
    serial_type, \* read_value, validate_serial_type: the serial type (u64)
    validated,   \* validate_serial_type: its Result<SerialType>
    val,         \* read_value: its Result<(RefValue, usize)>
    payload,     \* read_record: the payload slice handed in
    record,      \* read_record: the reused ImmutableRecord
    outcome,     \* read_record: its Result<()>
    payload_size, \* payload_overflows: the size of a cell's payload
    thresholds,  \* payload_overflows, cell_get: threshold max, threshold min, usable size
    overflow,    \* payload_overflows: its (bool, usize)
    page,        \* PageContent: its offset and the bytes of its buffer
    request,     \* the accessor of PageContent called, with its arguments
    reply,       \* what the accessor returned
    header,      \* DatabaseHeader
    header_buf,  \* the buffer a DatabaseHeader is written to or read from
    header_read, \* finish_read_database_header: the header it filled
    db_file,     \* begin_write_database_header: page 1 as the file holds it
    io,          \* the I/O backend: the requests in flight
    buffer_to_copy, \* begin_write_database_header: the buffer handed to write_page
    wal_buf,     \* checksum_wal: the bytes summed
    input,       \* checksum_wal: the pair (s0, s1) it starts from
    native_endian, \* checksum_wal: the endianness mode
    target_endian, \* checksum_wal: the byte order of the machine, "little" or "big"
    checksum,    \* checksum_wal: its (u32, u32)
    wal_header,  \* WalHeader
    frame,       \* begin_write_wal_frame: the (buffer, checksums) its last call built
    wal_file,    \* the bytes of the WAL file
    wal_io,      \* the WAL file's I/O: the pwrite requests in flight
    frames,      \* the calls of begin_write_wal_frame in their order, each with what it returned
    cumulative,  \* the pair of checksums the writer holds, returned by its last call
    wal_header_read, \* finish_read_wal_header: the header it filled
    pages,       \* the pages of the pager: contents and flags
    write_counter, \* Rc<RefCell<usize>>: the pager's count of writes in flight
    syncing,     \* Rc<RefCell<bool>>: the pager's sync flag
    pager_io,    \* the database file's and the WAL file's I/O: the requests in flight
    completed,   \* the completions that have fired, in their order
    submitted,   \* the calls of the pager's begin_ functions, in their order
    tables,      \* dump_database: the tables of the schema and how reading each one goes
    schema_fault, \* dump_database: how stepping the schema query ends
    out,         \* the lines written to the output of the shell
    dump_result  \* dump_database: its Result<()>

vars == <<harness, pc, value, buf, written, decoded, serial_type, validated, val,
          payload, record, outcome, payload_size, thresholds, overflow, page, request,
          reply, header, header_buf, header_read, db_file, io, buffer_to_copy,
          wal_buf, input, native_endian, target_endian, checksum,
          wal_header, frame, wal_file, wal_io, frames, cumulative,
          wal_header_read, pages, write_counter, syncing, pager_io, completed,
          submitted, tables, schema_fault, out, dump_result>>

----------------------------------------------------------------------------
(* Bounds of the inputs.                                                   *)

\* read_varint is run on every buffer of up to MaxContinuation continuation bytes
MaxContinuation == 9
\* read_value is run on buffers of 0..MaxValueBuf bytes
MaxValueBuf == 9
\* serial types 0..MaxSerialType (and a few wide ones) are handed to read_value
MaxSerialType == 21
\* records have 0..MaxFewColumns columns, or overflow the inline buffer by up to MaxSpill
MaxFewColumns == 3
MaxSpill == 2
\* a record payload is cut short by 0..MaxCut bytes
MaxCut == 2
\* payload_overflows: how many overflow pages beyond the thresholds the payload sizes reach
MaxOverflowPages == 2
\* payload_overflows: how far around each boundary the payload sizes are taken
MaxSlack == 2
\* cell_get, cell_get_raw_region: the largest cell index asked for
MaxCellIndex == 3
\* database headers: the patterns the fields are filled from
MaxHeaderPattern == 7
\* checksum_wal: the word pairs of the longer buffers
MaxWalPairs == 2

----------------------------------------------------------------------------
(* Machine integers.  A u64 or an i64 is its eight bytes, the least         *)
(* significant first; arithmetic is modulo 2^64.                           *)

U64Bytes == 8
SmallVecInline == 64

Pow2(k) == 2 ^ k

\* the u64 holding the small number n (n < 2^31)
U64Of(n) == [i \in 1..U64Bytes |-> IF i > 4 THEN 0 ELSE (n \div Pow2(8 * (i - 1))) % 256]
U64Table == [n \in 0..255 |-> U64Of(n)]
U64(n) == IF n <= 255 THEN U64Table[n] ELSE U64Of(n)

\* byte j of v, 0 outside the integer
Limb(v, j) == IF j >= 1 /\ j <= U64Bytes THEN v[j] ELSE 0

\* v << k, v >> k on u64
Shl(v, k) ==
    LET q == k \div 8
        r == k % 8
    IN  [i \in 1..U64Bytes |->
            ((Limb(v, i - q) * Pow2(r)) % 256) + (Limb(v, i - q - 1) \div Pow2(8 - r))]
Shr(v, k) ==
    LET q == k \div 8
        r == k % 8
    IN  [i \in 1..U64Bytes |->
            (Limb(v, i + q) \div Pow2(r)) + ((Limb(v, i + q + 1) * Pow2(8 - r)) % 256)]

RECURSIVE AndByte(_, _, _)
\* x & y on the bits j..7 of two bytes
AndByte(x, y, j) ==
    IF j > 7 THEN 0
    ELSE Pow2(j) * ((x \div Pow2(j)) % 2) * ((y \div Pow2(j)) % 2) + AndByte(x, y, j + 1)

\* a & b on u64
BitAnd(a, b) == [i \in 1..U64Bytes |-> AndByte(a[i], b[i], 0)]

RECURSIVE AddFrom(_, _, _, _)
AddFrom(a, b, i, c) ==
    IF i > U64Bytes THEN <<>>
    ELSE <<(a[i] + b[i] + c) % 256>> \o AddFrom(a, b, i + 1, (a[i] + b[i] + c) \div 256)

\* a + b on u64, modulo 2^64
AddU64(a, b) == AddFrom(a, b, 1, 0)

\* ~a on u64
BitNot(a) == [i \in 1..U64Bytes |-> 255 - a[i]]

\* a - b on u64, modulo 2^64
SubU64(a, b) == AddFrom(a, BitNot(b), 1, 1)

RECURSIVE LtFrom(_, _, _)
LtFrom(a, b, i) ==
    IF i = 0 THEN FALSE ELSE IF a[i] # b[i] THEN a[i] < b[i] ELSE LtFrom(a, b, i - 1)

\* a < b, a <= b on u64
LtU64(a, b) == LtFrom(a, b, U64Bytes)
LeqU64(a, b) == a = b \/ LtU64(a, b)

\* v as u8
AsU8(v) == v[1]

\* v % 2
Mod2(v) == v[1] % 2

\* v as usize, for a v that measures a buffer of the model (v < 2^31)
AsIndex(v) == v[1] + 256 * v[2] + 65536 * v[3] + 16777216 * (v[4] % 128)

\* bit i of v, i in 0..63
BitOf(v, i) == (v[(i \div 8) + 1] \div Pow2(i % 8)) % 2

----------------------------------------------------------------------------
(* Varint codec.                                                           *)

Ok(v, n) == [st |-> "ok", v |-> v, n |-> n]
Corrupt == [st |-> "corrupt", v |-> U64(0), n |-> 0]
\* an index out of bounds or a failed assert!: the thread panics
Panic == [st |-> "panic", v |-> U64(0), n |-> 0]
NoResult == [st |-> "none", v |-> U64(0), n |-> 0]

\* v = (v << 7) + (c & 0x7f) as u64
varint_accumulate(v, c) == AddU64(Shl(v, 7), U64(c % 128))

\* the ninth byte taken for seven more bits
varint_ninth_shl7(b, v) == IF Len(b) < 9 THEN Panic ELSE Ok(AddU64(Shl(v, 7), U64(b[9])), 9)

\* v = (v << 8) + buf[8] as u64, reached after eight continuation bytes
varint_ninth(b, v) == IF Len(b) < 9 THEN Panic ELSE Ok(AddU64(Shl(v, 8), U64(b[9])), 9)

\* the state of the loop: st is "run" until the function returns
VarintScan(st, v, i) == [st |-> st, v |-> v, n |-> i]

\* one pass of  for i in 0..8 { match buf.get(i) { Some(c) => .., None => bail } }
varint_step(b, s) ==
    IF s.n >= Len(b) THEN Corrupt
    ELSE LET c == b[s.n + 1]
         IN  VarintScan(IF c < 128 THEN "ok" ELSE "run", varint_accumulate(s.v, c), s.n + 1)

RECURSIVE read_varint_loop(_, _)
read_varint_loop(b, s) ==
    IF s.st # "run" THEN s
    ELSE IF s.n >= 8 THEN varint_ninth(b, s.v)
    ELSE read_varint_loop(b, varint_step(b, s))

read_varint(b) == read_varint_loop(b, VarintScan("run", U64(0), 0))

RECURSIVE varint_groups(_)
\* while bytes != 0 { encoded[n] = (0x80 | (bytes & 0x7f)) as u8; bytes >>= 7; n += 1 }
varint_groups(bytes) ==
    IF bytes = U64(0) THEN <<>>
    ELSE <<128 + AsU8(BitAnd(bytes, U64(127)))>> \o varint_groups(Shr(bytes, 7))

Reverse(s) == [i \in 1..Len(s) |-> s[Len(s) + 1 - i]]

\* the continuation bit left on the last byte
varint_last_group_kept(encoded) == encoded

\* encoded[0] &= 0x7f
varint_last_group(encoded) ==
    [i \in 1..Len(encoded) |-> IF i = 1 THEN encoded[i] % 128 ELSE encoded[i]]

\* for i in 0..n { buf[i] = encoded[n - 1 - i] }
varint_emit(encoded) == Reverse(varint_last_group(encoded))

\* the nine byte form: buf[8] = value as u8; value >>= 8; seven bits a byte, high bit set
varint_nine(v) ==
    [i \in 1..9 |-> IF i = 9 THEN AsU8(v)
                    ELSE 128 + AsU8(BitAnd(Shr(Shr(v, 8), 7 * (8 - i)), U64(127)))]

\* 0xff000000_u64 << 32
HighByteMask == Shl(Shl(U64(255), 24), 32)

\* buf[0..] = bytes, the rest of buf as it was
Put(b, bytes) == [i \in 1..Len(b) |-> IF i <= Len(bytes) THEN bytes[i] ELSE b[i]]

\* the buffer as write_varint leaves it and the byte count it returns
write_varint(b, v) ==
    IF LeqU64(v, U64(127)) THEN [buf |-> Put(b, <<AsU8(BitAnd(v, U64(127)))>>), n |-> 1]
    ELSE IF LeqU64(v, U64(16383))
        THEN [buf |-> Put(b, <<128 + AsU8(BitAnd(Shr(v, 7), U64(127))),
                               AsU8(BitAnd(v, U64(127)))>>),
              n |-> 2]
    ELSE IF LtU64(U64(0), BitAnd(v, HighByteMask)) THEN [buf |-> Put(b, varint_nine(v)), n |-> 9]
    ELSE LET encoded == varint_groups(v)
         IN  [buf |-> Put(b, varint_emit(encoded)), n |-> Len(encoded)]

ZeroBytes(n) == [i \in 1..n |-> 0]

\* let mut varint = [0u8; 9]; let n = write_varint(&mut varint, value);
\* payload.extend_from_slice(&varint[0..n])
write_varint_to_vec(v, p) ==
    LET r == write_varint(ZeroBytes(9), v) IN p \o SubSeq(r.buf, 1, r.n)

----------------------------------------------------------------------------
(* Serial types.                                                           *)

SERIAL_TYPE_NULL == U64(0)
SERIAL_TYPE_INT8 == U64(1)
SERIAL_TYPE_BEINT16 == U64(2)
SERIAL_TYPE_BEINT24 == U64(3)
SERIAL_TYPE_BEINT32 == U64(4)
SERIAL_TYPE_BEINT48 == U64(5)
SERIAL_TYPE_BEINT64 == U64(6)
SERIAL_TYPE_BEFLOAT64 == U64(7)
SERIAL_TYPE_CONSTINT0 == U64(8)
SERIAL_TYPE_CONSTINT1 == U64(9)

is_null(t) == t = SERIAL_TYPE_NULL
is_int8(t) == t = SERIAL_TYPE_INT8
is_beint16(t) == t = SERIAL_TYPE_BEINT16
is_beint24(t) == t = SERIAL_TYPE_BEINT24
is_beint32(t) == t = SERIAL_TYPE_BEINT32
is_beint48(t) == t = SERIAL_TYPE_BEINT48
is_beint64(t) == t = SERIAL_TYPE_BEINT64
is_befloat64(t) == t = SERIAL_TYPE_BEFLOAT64
is_constint0(t) == t = SERIAL_TYPE_CONSTINT0
is_constint1(t) == t = SERIAL_TYPE_CONSTINT1

\* self >= 12 && self % 2 == 0
is_blob(t) == LeqU64(U64(12), t) /\ Mod2(t) = 0

\* self >= 13 && self % 2 == 1
is_string(t) == LeqU64(U64(13), t) /\ Mod2(t) = 1

\* every blob taken for empty
blob_size_zero(t) == U64(0)

\* ((self - 12) / 2) as usize
blob_size(t) == Shr(SubU64(t, U64(12)), 1)

\* the size taken for the serial type less 13, not halved
string_size_undivided(t) == SubU64(t, U64(13))

\* ((self - 13) / 2) as usize
string_size(t) == Shr(SubU64(t, U64(13)), 1)

\* the bound of the small serial types taken as exclusive
is_valid_below9(t) == LtU64(t, U64(9)) \/ is_blob(t) \/ is_string(t)

\* self <= 9 || self.is_blob() || self.is_string()
is_valid(t) == LeqU64(t, U64(9)) \/ is_blob(t) \/ is_string(t)

validate_serial_type(t) ==
    IF is_valid(t) THEN [st |-> "ok", t |-> t] ELSE [st |-> "corrupt", t |-> U64(0)]

----------------------------------------------------------------------------
(* Values.  A RefValue is a tag, the i64 of an Integer and the bytes a    *)
(* Float is made of or a Blob or Text refers to.                           *)

Null == [tag |-> "Null", int |-> U64(0), bytes |-> <<>>]
Integer(i) == [tag |-> "Integer", int |-> i, bytes |-> <<>>]
Float(bs) == [tag |-> "Float", int |-> U64(0), bytes |-> bs]
Blob(bs) == [tag |-> "Blob", int |-> U64(0), bytes |-> bs]
Text(bs) == [tag |-> "Text", int |-> U64(0), bytes |-> bs]

ValOk(v, n) == [st |-> "ok", v |-> v, n |-> n]
ValCorrupt == [st |-> "corrupt", v |-> Null, n |-> 0]
ValNone == [st |-> "none", v |-> Null, n |-> 0]

\* iN::from_be_bytes(bs): the integer of Len(bs) bytes, the first byte the most significant
from_be_bytes(bs) == [i \in 1..Len(bs) |-> bs[Len(bs) + 1 - i]]

\* x as i64, for a signed x of fewer than eight bytes: the sign bit fills the rest
as_i64(x) ==
    [i \in 1..U64Bytes |-> IF i <= Len(x) THEN x[i] ELSE IF x[Len(x)] >= 128 THEN 255 ELSE 0]

\* the fourth byte always zero
sign_extension_zero(b0) == 0

\* let sign_extension = if buf[0] <= 127 { 0 } else { 255 }
sign_extension(b0) == IF b0 <= 127 THEN 0 ELSE 255

Take(b, n) == SubSeq(b, 1, n)

\* buf[pos..]: a start beyond the end panics
Slice(b, pos) == SubSeq(b, pos + 1, Len(b))

read_value(b, t) ==
    IF is_null(t) THEN ValOk(Null, 0)
    ELSE IF is_int8(t) THEN
        IF Len(b) = 0 THEN ValCorrupt
        ELSE ValOk(Integer(as_i64(from_be_bytes(<<b[1]>>))), 1)
    ELSE IF is_beint16(t) THEN
        IF Len(b) < 2 THEN ValCorrupt
        ELSE ValOk(Integer(as_i64(from_be_bytes(<<b[1], b[2]>>))), 2)
    ELSE IF is_beint24(t) THEN
        IF Len(b) < 3 THEN ValCorrupt
        ELSE ValOk(Integer(as_i64(from_be_bytes(<<sign_extension(b[1]), b[1], b[2], b[3]>>))), 3)
    ELSE IF is_beint32(t) THEN
        IF Len(b) < 4 THEN ValCorrupt
        ELSE ValOk(Integer(as_i64(from_be_bytes(<<b[1], b[2], b[3], b[4]>>))), 4)
    ELSE IF is_beint48(t) THEN
        IF Len(b) < 6 THEN ValCorrupt
        ELSE ValOk(Integer(from_be_bytes(<<sign_extension(b[1]), sign_extension(b[1]),
                                           b[1], b[2], b[3], b[4], b[5], b[6]>>)), 6)
    ELSE IF is_beint64(t) THEN
        IF Len(b) < 8 THEN ValCorrupt
        ELSE ValOk(Integer(from_be_bytes(Take(b, 8))), 8)
    ELSE IF is_befloat64(t) THEN
        IF Len(b) < 8 THEN ValCorrupt
        ELSE ValOk(Float(Take(b, 8)), 8)
    ELSE IF is_constint0(t) THEN ValOk(Integer(U64(0)), 0)
    ELSE IF is_constint1(t) THEN ValOk(Integer(U64(1)), 0)
    ELSE IF is_blob(t) THEN
        LET n == blob_size(t)
        IN  IF LtU64(U64(Len(b)), n) THEN ValCorrupt
            ELSE ValOk(Blob(Take(b, AsIndex(n))), AsIndex(n))
    ELSE IF is_string(t) THEN
        LET n == string_size(t)
        IN  IF LtU64(U64(Len(b)), n) THEN ValCorrupt
            ELSE ValOk(Text(Take(b, AsIndex(n))), AsIndex(n))
    ELSE ValCorrupt

----------------------------------------------------------------------------
(* The reused record (ImmutableRecord): the payload it owns and the values *)
(* that refer to it.                                                       *)

\* reuse_immutable.invalidate(): the previous use is cleared
invalidate(rec) == [payload |-> <<>>, values |-> <<>>]

\* reuse_immutable.start_serialization(payload): the payload is copied in
start_serialization(rec, p) == [rec EXCEPT !.payload = @ \o p]

get_payload(rec) == rec.payload

\* reuse_immutable.add_value(value)
add_value(rec, v) == [rec EXCEPT !.values = Append(@, v)]

----------------------------------------------------------------------------
(* SmallVec: SmallVecInline entries inline, the rest in extra_data.  data  *)
(* holds the entries written so far; the others are uninitialised and are  *)
(* never read.                                                             *)

SmallVec_new == [data |-> <<>>, len |-> 0, extra_data |-> [some |-> FALSE, vec |-> <<>>]]

\* an entry beyond the inline buffer counted but not kept
SmallVec_push_lost(sv, x) ==
    IF sv.len < SmallVecInline
        THEN [sv EXCEPT !.data = Append(@, x), !.len = @ + 1]
        ELSE [sv EXCEPT !.len = @ + 1]

SmallVec_push(sv, x) ==
    IF sv.len < SmallVecInline
        THEN [sv EXCEPT !.data = Append(@, x), !.len = @ + 1]
        ELSE [sv EXCEPT !.extra_data = [some |-> TRUE, vec |-> Append(@.vec, x)],
                        !.len = @ + 1]

Min(a, b) == IF a <= b THEN a ELSE b

\* &serial_types.data[..serial_types.len.min(serial_types.data.len())]
SmallVec_inline(sv) == SubSeq(sv.data, 1, Min(sv.len, SmallVecInline))

\* serial_types.extra_data.as_ref(): the entries a Some holds, none for None
SmallVec_extra(sv) == IF sv.extra_data.some THEN sv.extra_data.vec ELSE <<>>

----------------------------------------------------------------------------
(* Record decoder.                                                         *)

\* the state of the header loop: st is "run" until the loop is left
HeaderScan(st, pos, header_size, serial_types) ==
    [st |-> st, pos |-> pos, header_size |-> header_size, serial_types |-> serial_types]

\* one pass of  while header_size > 0 { read_varint; validate_serial_type; push; assert! }
header_step(rec, s) ==
    IF s.st # "run" THEN s
    ELSE IF s.header_size = U64(0) THEN [s EXCEPT !.st = "ok"]
    ELSE LET r == read_varint(Slice(get_payload(rec), s.pos))
             t == validate_serial_type(r.v)
         IN  IF r.st # "ok" THEN [s EXCEPT !.st = r.st]
             ELSE IF t.st # "ok" THEN [s EXCEPT !.st = "corrupt"]
             ELSE IF LtU64(s.header_size, U64(r.n))
                 THEN HeaderScan("panic", s.pos + r.n, s.header_size,
                                 SmallVec_push(s.serial_types, t.t))
             ELSE HeaderScan("run", s.pos + r.n, SubU64(s.header_size, U64(r.n)),
                             SmallVec_push(s.serial_types, t.t))

RECURSIVE read_header(_, _, _)
\* the header loop, run until it is left: at most n passes, each taking a byte or more
read_header(rec, s, n) ==
    IF n <= 1 THEN header_step(rec, s)
    ELSE LET half == read_header(rec, s, n \div 2)
         IN  IF half.st # "run" THEN half ELSE read_header(rec, half, n - (n \div 2))

\* the state of a value loop: st is "run" until the loop is left
ValueScan(st, pos, rec, i) == [st |-> st, pos |-> pos, record |-> rec, i |-> i]

\* one pass of  for serial_type in types { read_value(..)?; pos += n; add_value(value) }
value_step(types, s) ==
    IF s.st # "run" THEN s
    ELSE IF s.i > Len(types) THEN [s EXCEPT !.st = "ok"]
    ELSE LET r == read_value(Slice(get_payload(s.record), s.pos), types[s.i])
         IN  IF r.st # "ok" THEN [s EXCEPT !.st = r.st]
             ELSE ValueScan("run", s.pos + r.n, add_value(s.record, r.v), s.i + 1)

RECURSIVE read_values(_, _, _)
\* a value loop, run until it is left: at most n passes
read_values(types, s, n) ==
    IF n <= 1 THEN value_step(types, s)
    ELSE LET half == read_values(types, s, n \div 2)
         IN  IF half.st # "run" THEN half ELSE read_values(types, half, n - (n \div 2))

\* the record and the Result<()> read_record leaves: st is "ok", "corrupt" or "panic"
read_record(p, reuse_immutable) ==
    LET rec == start_serialization(invalidate(reuse_immutable), p)
        h == read_varint(p)
    IN  IF h.st # "ok" THEN [st |-> h.st, record |-> rec]
        ELSE IF LtU64(h.v, U64(h.n)) THEN [st |-> "panic", record |-> rec]
        ELSE LET hdr == read_header(rec, HeaderScan("run", h.n, SubU64(h.v, U64(h.n)),
                                                    SmallVec_new),
                                    Len(p) + 1)
             IN  IF hdr.st # "ok" THEN [st |-> hdr.st, record |-> rec]
                 ELSE LET inline == SmallVec_inline(hdr.serial_types)
                          inl == read_values(inline, ValueScan("run", hdr.pos, rec, 1),
                                             Len(inline) + 1)
                      IN  IF inl.st # "ok" THEN [st |-> inl.st, record |-> inl.record]
                          ELSE LET extra == SmallVec_extra(hdr.serial_types)
                                   ext == read_values(extra,
                                                      ValueScan("run", inl.pos, inl.record, 1),
                                                      Len(extra) + 1)
                               IN  [st |-> ext.st, record |-> ext.record]

----------------------------------------------------------------------------
(* Inputs.                                                                 *)

RECURSIVE BitsByte(_, _, _)
\* the byte whose bit j is bits[8 * i + j]
BitsByte(bits, i, j) ==
    IF j > 7 THEN 0 ELSE Pow2(j) * bits[8 * i + j] + BitsByte(bits, i, j + 1)

\* the u64 whose bit i is bits[i], i in 0..63
FromBits(bits) == [i \in 1..U64Bytes |-> BitsByte(bits, i - 1, 0)]

BitIndex == 0..(8 * U64Bytes - 1)

\* 2^k - 1, 2^(k-1), 2^(k-1) + 1 and two alternating patterns below bit k
Ones(k) == FromBits([i \in BitIndex |-> IF i < k THEN 1 ELSE 0])
Top(k) == FromBits([i \in BitIndex |-> IF i = k - 1 THEN 1 ELSE 0])
TopLow(k) == FromBits([i \in BitIndex |-> IF i = k - 1 \/ i = 0 THEN 1 ELSE 0])
AltOdd(k) == FromBits([i \in BitIndex |-> IF i < k /\ i % 2 = 0 THEN 1 ELSE 0])
AltTop(k) == FromBits([i \in BitIndex |-> IF i = k - 1 \/ (i < k - 1 /\ i % 2 = 1) THEN 1 ELSE 0])

VarintValues ==
    UNION {{Ones(k), Top(k), TopLow(k), AltOdd(k), AltTop(k)} : k \in 0..(8 * U64Bytes)}

\* up to MaxContinuation continuation bytes, then nothing or one last byte
VarintBuffers ==
    LET prefixes == UNION {[1..n -> {128, 255}] : n \in 0..MaxContinuation}
    IN  {pre \o tail : pre \in prefixes, tail \in {<<>>, <<0>>, <<127>>}}

SerialTypes ==
    {U64(n) : n \in 0..MaxSerialType}
        \cup {Ones(64), SubU64(Ones(64), U64(1)), Top(33), TopLow(33)}

\* a first byte followed by one repeated byte, and the ramp 12 34 56 ...
ValueBuffers ==
    {[i \in 1..n |-> IF i = 1 THEN b0 ELSE r] :
        n \in 0..MaxValueBuf, b0 \in {0, 127, 128, 255}, r \in {0, 255}}
        \cup {[i \in 1..n |-> (18 + 34 * (i - 1)) % 256] : n \in 0..MaxValueBuf}

\* the i-th column of a generated record: the bytes of its serial type and of its value
Column(kind, i) ==
    CASE kind = "null" -> [hdr |-> <<0>>, body |-> <<>>]
      [] kind = "int8" -> [hdr |-> <<1>>, body |-> <<(37 * i) % 256>>]
      [] kind = "int16" -> [hdr |-> <<2>>, body |-> <<255, i>>]
      [] kind = "int32" -> [hdr |-> <<4>>, body |-> <<0, 0, 0, 21 * i>>]
      [] kind = "const1" -> [hdr |-> <<9>>, body |-> <<>>]
      [] kind = "bad" -> [hdr |-> <<10>>, body |-> <<>>]
      [] kind = "blob" -> [hdr |-> <<14>>, body |-> <<i>>]
      [] kind = "text" -> [hdr |-> <<17>>, body |-> <<104, 105>>]
      [] kind = "twobyte" -> [hdr |-> <<128, 1>>, body |-> <<i>>]
      [] kind = "long" -> [hdr |-> <<129, 1>>, body |-> [j \in 1..58 |-> 97]]

Patterns ==
    << <<"int8">>, <<"null", "int32", "text">>, <<"blob", "const1", "twobyte">>,
       <<"int8", "bad">>, <<"int16", "long">>, <<"twobyte">> >>

KindAt(p, i) == Patterns[p][((i - 1) % Len(Patterns[p])) + 1]

RECURSIVE HeaderRange(_, _, _)
\* the serial types of columns lo..hi of pattern p
HeaderRange(p, lo, hi) ==
    IF lo > hi THEN <<>>
    ELSE IF lo = hi THEN Column(KindAt(p, lo), lo).hdr
    ELSE HeaderRange(p, lo, (lo + hi) \div 2) \o HeaderRange(p, ((lo + hi) \div 2) + 1, hi)

RECURSIVE BodyRange(_, _, _)
\* the values of columns lo..hi of pattern p
BodyRange(p, lo, hi) ==
    IF lo > hi THEN <<>>
    ELSE IF lo = hi THEN Column(KindAt(p, lo), lo).body
    ELSE BodyRange(p, lo, (lo + hi) \div 2) \o BodyRange(p, ((lo + hi) \div 2) + 1, hi)

HeaderBytes(p, k) == HeaderRange(p, 1, k)
BodyBytes(p, k) == BodyRange(p, 1, k)

\* the header size of the record: the serial types and the varint of the size itself
HeaderSize(p, k) ==
    LET types == Len(HeaderBytes(p, k)) IN IF types + 1 <= 127 THEN types + 1 ELSE types + 2

ColumnCounts ==
    (0..MaxFewColumns) \cup ((SmallVecInline - 1)..(SmallVecInline + MaxSpill))

\* the payload of a generated record, declaring the header size d, less its last cut bytes
MakePayload(p, k, d, cut) ==
    LET full == write_varint_to_vec(U64(d), <<>>) \o HeaderBytes(p, k) \o BodyBytes(p, k)
    IN  SubSeq(full, 1, Len(full) - Min(cut, Len(full)))

\* the ten bytes of scenario S2, and the same record with the serial type of a 2-byte text
S2Payload == <<4, 0, 4, 19, 0, 0, 0, 42, 104, 105>>
S2Text17 == <<4, 0, 4, 17, 0, 0, 0, 42, 104, 105>>

\* the header sizes a generated record declares: its own, one off, and 0
Declared(p, k) == {0} \cup ((HeaderSize(p, k) - 1)..(HeaderSize(p, k) + 1))

Payloads ==
    UNION {{MakePayload(p, k, d, cut) : d \in Declared(p, k), cut \in 0..MaxCut} :
              p \in 1..Len(Patterns), k \in ColumnCounts}
        \cup {S2Payload, S2Text17}

EmptyRecord == [payload |-> <<>>, values |-> <<>>]

\* the record handed to read_record: a new one, or one an earlier decode has filled
PriorRecords == {EmptyRecord, read_record(S2Text17, EmptyRecord).record}

----------------------------------------------------------------------------
(* Overflow rule.  usize numbers are plain numbers here: every size of the *)
(* model is far below 2^31.                                                *)

OverflowResult(overflows, n) == [st |-> "ok", overflows |-> overflows, n |-> n]
\* a usize subtraction below zero (a panic with overflow checks, a wrap without)
\* or a remainder by zero
OverflowUnderflow == [st |-> "underflow", overflows |-> FALSE, n |-> 0]
NoOverflowResult == [st |-> "none", overflows |-> FALSE, n |-> 0]

\* the inline size never reset to the threshold min
payload_overflows_unreset(P, threshold_max, threshold_min, usable_size) ==
    IF P <= threshold_max THEN OverflowResult(FALSE, 0)
    ELSE OverflowResult(TRUE, threshold_min + ((P - threshold_min) % (usable_size - 4)) + 4)

payload_overflows(P, threshold_max, threshold_min, usable_size) ==
    IF P <= threshold_max THEN OverflowResult(FALSE, 0)
    ELSE IF P < threshold_min \/ usable_size <= 4 THEN OverflowUnderflow
    ELSE LET space_left == threshold_min + ((P - threshold_min) % (usable_size - 4))
         IN  IF space_left > threshold_max THEN OverflowResult(TRUE, threshold_min + 4)
             ELSE OverflowResult(TRUE, space_left + 4)

----------------------------------------------------------------------------
(* B-tree pages.  A PageContent is the offset of the b-tree header in the  *)
(* page (100 on page 1, 0 elsewhere) and the bytes of the page buffer.  An *)
(* index outside the buffer, a failed unwrap() or assert! panics.          *)

DATABASE_HEADER_SIZE == 100

PageContent(offset, buffer) == [offset |-> offset, buffer |-> buffer]

Done(v) == [st |-> "ok", v |-> v]
Failed(st) == [st |-> st, v |-> <<>>]

\* buf[i], i counted from 0
ByteAt(b, i) == b[i + 1]

\* impl TryFrom<u8> for PageType
PageType_try_from(type_byte) ==
    CASE type_byte = 2 -> Done("IndexInterior")
      [] type_byte = 5 -> Done("TableInterior")
      [] type_byte = 10 -> Done("IndexLeaf")
      [] type_byte = 13 -> Done("TableLeaf")
      [] OTHER -> Failed("corrupt")

\* buf[self.offset + pos]
read_u8(pg, pos) ==
    IF pg.offset + pos < Len(pg.buffer) THEN Done(ByteAt(pg.buffer, pg.offset + pos))
    ELSE Failed("panic")

\* u16::from_be_bytes([buf[pos], buf[pos + 1]])
read_u16_no_offset(pg, pos) ==
    IF pos + 1 < Len(pg.buffer)
        THEN Done(256 * ByteAt(pg.buffer, pos) + ByteAt(pg.buffer, pos + 1))
        ELSE Failed("panic")

read_u16(pg, pos) == read_u16_no_offset(pg, pg.offset + pos)

\* u32::from_be_bytes of the four bytes at pos: a u32 is its four bytes, the least
\* significant first
read_u32_at(b, pos) ==
    IF pos + 3 < Len(b) THEN Done(from_be_bytes(SubSeq(b, pos + 1, pos + 4)))
    ELSE Failed("panic")

read_u32(pg, pos) == read_u32_at(pg.buffer, pg.offset + pos)

\* self.read_u8(0).try_into().unwrap()
page_type(pg) ==
    IF read_u8(pg, 0).st # "ok" THEN read_u8(pg, 0)
    ELSE IF PageType_try_from(read_u8(pg, 0).v).st # "ok" THEN Failed("panic")
    ELSE PageType_try_from(read_u8(pg, 0).v)

\* Some(page type) or None
maybe_page_type(pg) ==
    IF read_u8(pg, 0).st # "ok" THEN read_u8(pg, 0)
    ELSE IF PageType_try_from(read_u8(pg, 0).v).st = "ok"
        THEN Done([some |-> TRUE, v |-> PageType_try_from(read_u8(pg, 0).v).v])
    ELSE Done([some |-> FALSE, v |-> ""])

header_size(pg) ==
    IF page_type(pg).st # "ok" THEN page_type(pg)
    ELSE Done(IF page_type(pg).v \in {"IndexInterior", "TableInterior"} THEN 12 ELSE 8)

rightmost_pointer(pg) ==
    IF page_type(pg).st # "ok" THEN page_type(pg)
    ELSE IF page_type(pg).v \in {"IndexInterior", "TableInterior"}
        THEN (IF read_u32(pg, 8).st # "ok" THEN read_u32(pg, 8)
              ELSE Done([some |-> TRUE, v |-> read_u32(pg, 8).v]))
    ELSE Done([some |-> FALSE, v |-> <<>>])

\* self.read_u16(3) as usize
cell_count(pg) == read_u16(pg, 3)

cell_pointer_array_size(pg) ==
    IF cell_count(pg).st # "ok" THEN cell_count(pg) ELSE Done(cell_count(pg).v * 2)

\* (self.offset + header_size, self.cell_pointer_array_size())
cell_pointer_array_offset_and_size(pg) ==
    IF header_size(pg).st # "ok" THEN header_size(pg)
    ELSE IF cell_pointer_array_size(pg).st # "ok" THEN cell_pointer_array_size(pg)
    ELSE Done(<<pg.offset + header_size(pg).v, cell_pointer_array_size(pg).v>>)

unallocated_region_start(pg) ==
    IF cell_pointer_array_offset_and_size(pg).st # "ok" THEN cell_pointer_array_offset_and_size(pg)
    ELSE Done(cell_pointer_array_offset_and_size(pg).v[1] + cell_pointer_array_offset_and_size(pg).v[2])

\* self.read_u16(5): a u16
cell_content_area(pg) == read_u16(pg, 5)

\* self.cell_content_area() as usize - self.unallocated_region_start(): below zero the
\* subtraction panics when the build checks overflow and wraps modulo 2^64 when not
unallocated_region_size(pg, overflow_checks) ==
    IF cell_content_area(pg).st # "ok" THEN cell_content_area(pg)
    ELSE IF unallocated_region_start(pg).st # "ok" THEN unallocated_region_start(pg)
    ELSE IF cell_content_area(pg).v >= unallocated_region_start(pg).v
        THEN Done(cell_content_area(pg).v - unallocated_region_start(pg).v)
    ELSE IF overflow_checks THEN Failed("panic")
    ELSE [st |-> "wrapped",
          v |-> SubU64(U64(cell_content_area(pg).v), U64(unallocated_region_start(pg).v))]

----------------------------------------------------------------------------
(* Cells.                                                                  *)

Some(v) == [some |-> TRUE, v |-> v]
None == [some |-> FALSE, v |-> <<>>]

TableInteriorCell(left_child_page, rowid) ==
    [kind |-> "TableInteriorCell", left_child_page |-> left_child_page, rowid |-> rowid]
TableLeafCell(rowid, p, size, first_overflow_page) ==
    [kind |-> "TableLeafCell", rowid |-> rowid, payload |-> p, payload_size |-> size,
     first_overflow_page |-> first_overflow_page]
IndexInteriorCell(left_child_page, p, size, first_overflow_page) ==
    [kind |-> "IndexInteriorCell", left_child_page |-> left_child_page, payload |-> p,
     payload_size |-> size, first_overflow_page |-> first_overflow_page]
IndexLeafCell(p, size, first_overflow_page) ==
    [kind |-> "IndexLeafCell", payload |-> p, payload_size |-> size,
     first_overflow_page |-> first_overflow_page]

\* the overflow taken from the thresholds alone
read_payload_by_threshold(unread, size) ==
    IF Len(unread) < 4 THEN Failed("panic")
    ELSE Done([payload |-> SubSeq(unread, 1, Len(unread) - 4),
               first_overflow_page |-> Some(from_be_bytes(SubSeq(unread, Len(unread) - 3, Len(unread))))])

\* the payload on the page and, when it overflows, the first overflow page
read_payload(unread, size) ==
    IF size <= Len(unread)
        THEN Done([payload |-> SubSeq(unread, 1, size), first_overflow_page |-> None])
    ELSE IF Len(unread) < 4 THEN Failed("panic")
    ELSE Done([payload |-> SubSeq(unread, 1, Len(unread) - 4),
               first_overflow_page |-> Some(from_be_bytes(SubSeq(unread, Len(unread) - 3, Len(unread))))])

\* the part of read_btree_cell the three cells with a payload share: from pos, just
\* after the varints, to the cell's payload and overflow page
cell_payload(b, pos, size, max_local, min_local, usable_size) ==
    LET o == payload_overflows(size, max_local, min_local, usable_size)
        to_read == IF o.overflows THEN o.n ELSE Len(b) - pos
    IN  IF o.st # "ok" THEN Failed("panic")
        ELSE IF pos + to_read > Len(b) THEN Failed("panic")
        ELSE read_payload(SubSeq(b, pos + 1, pos + to_read), size)

\* the varint read at pos of the page: Ok, or the Corrupt that `?` returns
varint_at(b, pos) == read_varint(Slice(b, pos))

read_btree_cell(b, type, pos, max_local, min_local, usable_size) ==
    CASE type = "IndexInterior" ->
           LET left == read_u32_at(b, pos)
               size == varint_at(b, pos + 4)
               p == cell_payload(b, pos + 4 + size.n, AsIndex(size.v), max_local, min_local, usable_size)
           IN  IF left.st # "ok" THEN left
               ELSE IF size.st # "ok" THEN Failed(size.st)
               ELSE IF p.st # "ok" THEN p
               ELSE Done(IndexInteriorCell(left.v, p.v.payload, size.v, p.v.first_overflow_page))
      [] type = "TableInterior" ->
           LET left == read_u32_at(b, pos)
               rowid == varint_at(b, pos + 4)
           IN  IF left.st # "ok" THEN left
               ELSE IF rowid.st # "ok" THEN Failed(rowid.st)
               ELSE Done(TableInteriorCell(left.v, rowid.v))
      [] type = "IndexLeaf" ->
           LET size == IF pos > Len(b) THEN Panic ELSE varint_at(b, pos)
               p == cell_payload(b, pos + size.n, AsIndex(size.v), max_local, min_local, usable_size)
           IN  IF size.st # "ok" THEN Failed(size.st)
               ELSE IF p.st # "ok" THEN p
               ELSE Done(IndexLeafCell(p.v.payload, size.v, p.v.first_overflow_page))
      [] type = "TableLeaf" ->
           LET size == IF pos > Len(b) THEN Panic ELSE varint_at(b, pos)
               rowid == varint_at(b, pos + size.n)
               p == cell_payload(b, pos + size.n + rowid.n, AsIndex(size.v), max_local, min_local,
                                 usable_size)
           IN  IF size.st # "ok" THEN Failed(size.st)
               ELSE IF rowid.st # "ok" THEN Failed(rowid.st)
               ELSE IF p.st # "ok" THEN p
               ELSE Done(TableLeafCell(rowid.v, p.v.payload, size.v, p.v.first_overflow_page))

\* PageContent::cell_get
cell_get(pg, idx, t) ==
    IF cell_count(pg).st # "ok" THEN cell_count(pg)
    ELSE IF header_size(pg).st # "ok" THEN header_size(pg)
    ELSE IF ~(idx < cell_count(pg).v) THEN Failed("panic")
    ELSE IF read_u16(pg, header_size(pg).v + idx * 2).st # "ok" THEN Failed("panic")
    ELSE read_btree_cell(pg.buffer, page_type(pg).v, read_u16(pg, header_size(pg).v + idx * 2).v,
                         t.max, t.min, t.usable)

\* read_varint(..).unwrap(): an Err panics
varint_unwrap(b, pos) ==
    IF pos > Len(b) THEN Panic
    ELSE IF varint_at(b, pos).st # "ok" THEN Panic
    ELSE varint_at(b, pos)

\* the length cell_get_raw_region gives a cell with a payload: before holds the bytes
\* ahead of the payload, trailing the bytes the arm adds after it
raw_region_len(before, size, trailing, t) ==
    LET o == payload_overflows(size, t.max, t.min, t.usable)
    IN  IF o.st # "ok" THEN Failed("panic")
        ELSE IF o.overflows THEN Done(before + o.n + trailing)
        ELSE Done(before + size + trailing)

\* PageContent::cell_get_raw_region: the start and the length of the cell idx
cell_get_raw_region(pg, idx, t) ==
    IF cell_count(pg).st # "ok" THEN cell_count(pg)
    ELSE IF cell_pointer_array_offset_and_size(pg).st # "ok"
        THEN cell_pointer_array_offset_and_size(pg)
    ELSE IF ~(idx < cell_count(pg).v) THEN Failed("panic")
    ELSE LET slot == read_u16_no_offset(pg, cell_pointer_array_offset_and_size(pg).v[1] + idx * 2)
             start == slot.v
             b == pg.buffer
             type == page_type(pg).v
             len ==
                 CASE type = "IndexInterior" ->
                        LET size == varint_unwrap(b, start + 4)
                        IN  IF size.st # "ok" THEN Failed("panic")
                            ELSE raw_region_len(4 + size.n, AsIndex(size.v), 4, t)
                   [] type = "TableInterior" ->
                        LET rowid == varint_unwrap(b, start + 4)
                        IN  IF rowid.st # "ok" THEN Failed("panic") ELSE Done(4 + rowid.n)
                   [] type = "IndexLeaf" ->
                        LET size == varint_unwrap(b, start)
                        IN  IF size.st # "ok" THEN Failed("panic")
                            ELSE raw_region_len(size.n, AsIndex(size.v), 4, t)
                   [] type = "TableLeaf" ->
                        LET size == varint_unwrap(b, start)
                            rowid == varint_unwrap(b, start + size.n)
                        IN  IF size.st # "ok" \/ rowid.st # "ok" THEN Failed("panic")
                            ELSE raw_region_len(size.n + rowid.n, AsIndex(size.v), 0, t)
         IN  IF slot.st # "ok" THEN Failed("panic")
             ELSE IF len.st # "ok" THEN len
             ELSE Done(<<start, len.v>>)

----------------------------------------------------------------------------
(* Database header.  A u8 and the u16 page size are numbers, a u32 is its   *)
(* four bytes, the least significant first, and the i32 cache size is a     *)
(* number of -2^31..2^31-1.                                                 *)

DEFAULT_CACHE_SIZE == -2000

\* b"SQLite format 3\0"
Magic == <<83, 81, 76, 105, 116, 101, 32, 102, 111, 114, 109, 97, 116, 32, 51, 0>>

Zeros(n) == [i \in 1..n |-> 0]

\* u32 of a small number
U32(n) == <<n % 256, (n \div 256) % 256, (n \div 65536) % 256, (n \div 16777216) % 256>>

\* impl Default for DatabaseHeader
DefaultDatabaseHeader ==
    [magic |-> Magic, page_size |-> 4096, write_version |-> 2, read_version |-> 2,
     reserved_space |-> 0, max_embed_frac |-> 64, min_embed_frac |-> 32, min_leaf_frac |-> 32,
     change_counter |-> U32(1), database_size |-> U32(1), freelist_trunk_page |-> U32(0),
     freelist_pages |-> U32(0), schema_cookie |-> U32(0), schema_format |-> U32(4),
     default_page_cache_size |-> 500, vacuum_mode_largest_root_page |-> U32(0),
     text_encoding |-> U32(1), user_version |-> U32(0), incremental_vacuum_enabled |-> U32(0),
     application_id |-> U32(0), reserved_for_expansion |-> Zeros(20),
     version_valid_for |-> U32(3047000), version_number |-> U32(3047000)]

\* u16::to_be_bytes, u16::from_be_bytes
u16_to_be_bytes(x) == <<x \div 256, x % 256>>
u16_from_be_bytes(bs) == 256 * bs[1] + bs[2]

\* u32::to_be_bytes stored the wrong way round
u32_to_le_bytes(x) == x

\* u32::to_be_bytes: the most significant byte first
u32_to_be_bytes(x) == <<x[4], x[3], x[2], x[1]>>

\* i32::to_be_bytes: the two's complement of x, the most significant byte first
i32_to_be_bytes(x) ==
    <<(x \div 16777216) % 256, (x \div 65536) % 256, (x \div 256) % 256, x % 256>>

\* i32::from_be_bytes: the first byte carries the sign
i32_from_be_bytes(bs) ==
    ((IF bs[1] >= 128 THEN bs[1] - 256 ELSE bs[1]) * 16777216)
        + bs[2] * 65536 + bs[3] * 256 + bs[4]

\* the last of the writes (offset, bytes) that covers the byte i, 0 when there is none
LastWrite(writes, i) ==
    LET covering == {k \in 1..Len(writes) :
                        writes[k][1] < i /\ i <= writes[k][1] + Len(writes[k][2])}
    IN  IF covering = {} THEN 0 ELSE CHOOSE k \in covering : \A j \in covering : j <= k

\* buf[off..off + bytes.len()].copy_from_slice(bytes), for each of the writes in their order
copy_all(b, writes) ==
    [i \in 1..Len(b) |->
        IF LastWrite(writes, i) = 0 THEN b[i]
        ELSE writes[LastWrite(writes, i)][2][i - writes[LastWrite(writes, i)][1]]]

\* write_header_to_buf: each field at its offset
write_header_to_buf(b, h) ==
    IF Len(b) < DATABASE_HEADER_SIZE THEN Failed("panic")
    ELSE Done(copy_all(b,
        << <<0, h.magic>>,
           <<16, u16_to_be_bytes(h.page_size)>>,
           <<18, <<h.write_version>> >>,
           <<19, <<h.read_version>> >>,
           <<20, <<h.reserved_space>> >>,
           <<21, <<h.max_embed_frac>> >>,
           <<22, <<h.min_embed_frac>> >>,
           <<23, <<h.min_leaf_frac>> >>,
           <<24, u32_to_be_bytes(h.change_counter)>>,
           <<28, u32_to_be_bytes(h.database_size)>>,
           <<32, u32_to_be_bytes(h.freelist_trunk_page)>>,
           <<36, u32_to_be_bytes(h.freelist_pages)>>,
           <<40, u32_to_be_bytes(h.schema_cookie)>>,
           <<44, u32_to_be_bytes(h.schema_format)>>,
           <<48, i32_to_be_bytes(h.default_page_cache_size)>>,
           <<52, u32_to_be_bytes(h.vacuum_mode_largest_root_page)>>,
           <<56, u32_to_be_bytes(h.text_encoding)>>,
           <<60, u32_to_be_bytes(h.user_version)>>,
           <<64, u32_to_be_bytes(h.incremental_vacuum_enabled)>>,
           <<68, u32_to_be_bytes(h.application_id)>>,
           <<72, h.reserved_for_expansion>>,
           <<92, u32_to_be_bytes(h.version_valid_for)>>,
           <<96, u32_to_be_bytes(h.version_number)>> >>))

\* the cache size kept as it was stored
cache_size_as_stored(size) == size

\* if header.default_page_cache_size == 0 { header.default_page_cache_size = DEFAULT_CACHE_SIZE }
cache_size_or_default(size) == IF size = 0 THEN DEFAULT_CACHE_SIZE ELSE size

\* buf[a..a + n]
Bytes(b, a, n) == SubSeq(b, a + 1, a + n)

\* finish_read_database_header: each field from its offset
finish_read_database_header(b) ==
    IF Len(b) < DATABASE_HEADER_SIZE THEN Failed("panic")
    ELSE Done(
        [magic |-> Bytes(b, 0, 16),
         page_size |-> u16_from_be_bytes(Bytes(b, 16, 2)),
         write_version |-> ByteAt(b, 18),
         read_version |-> ByteAt(b, 19),
         reserved_space |-> ByteAt(b, 20),
         max_embed_frac |-> ByteAt(b, 21),
         min_embed_frac |-> ByteAt(b, 22),
         min_leaf_frac |-> ByteAt(b, 23),
         change_counter |-> from_be_bytes(Bytes(b, 24, 4)),
         database_size |-> from_be_bytes(Bytes(b, 28, 4)),
         freelist_trunk_page |-> from_be_bytes(Bytes(b, 32, 4)),
         freelist_pages |-> from_be_bytes(Bytes(b, 36, 4)),
         schema_cookie |-> from_be_bytes(Bytes(b, 40, 4)),
         schema_format |-> from_be_bytes(Bytes(b, 44, 4)),
         default_page_cache_size |-> cache_size_or_default(i32_from_be_bytes(Bytes(b, 48, 4))),
         vacuum_mode_largest_root_page |-> from_be_bytes(Bytes(b, 52, 4)),
         text_encoding |-> from_be_bytes(Bytes(b, 56, 4)),
         user_version |-> from_be_bytes(Bytes(b, 60, 4)),
         incremental_vacuum_enabled |-> from_be_bytes(Bytes(b, 64, 4)),
         application_id |-> from_be_bytes(Bytes(b, 68, 4)),
         reserved_for_expansion |-> Bytes(b, 72, 20),
         version_valid_for |-> from_be_bytes(Bytes(b, 92, 4)),
         version_number |-> from_be_bytes(Bytes(b, 96, 4))])

----------------------------------------------------------------------------
(* WAL checksum.  A u32 is its four bytes, the least significant first.    *)

\* a.wrapping_add(b) on u32
wrapping_add(a, b) ==
    LET c1 == a[1] + b[1]
        c2 == a[2] + b[2] + (c1 \div 256)
        c3 == a[3] + b[3] + (c2 \div 256)
        c4 == a[4] + b[4] + (c3 \div 256)
    IN  <<c1 % 256, c2 % 256, c3 % 256, c4 % 256>>

\* u32::from_ne_bytes: the bytes in the order of the machine
from_ne_bytes(bs, target) == IF target = "little" THEN bs ELSE from_be_bytes(bs)

\* the bytes left in their order
swap_bytes_not(x) == x

\* u32::swap_bytes
swap_bytes(x) == <<x[4], x[3], x[2], x[1]>>

\* the word read at i in the mode
wal_word(b, i, native, target) ==
    IF native THEN from_ne_bytes(Bytes(b, i, 4), target)
    ELSE swap_bytes(from_ne_bytes(Bytes(b, i, 4), target))

\* the step with s1 taken from the s0 of before
checksum_wal_step_stale(b, s, i, native, target) ==
    <<wrapping_add(s[1], wrapping_add(wal_word(b, i, native, target), s[2])),
      wrapping_add(s[2], wrapping_add(wal_word(b, i + 4, native, target), s[1]))>>

\* s0 = s0.wrapping_add(v0.wrapping_add(s1)); s1 = s1.wrapping_add(v1.wrapping_add(s0))
checksum_wal_step(b, s, i, native, target) ==
    LET s0 == wrapping_add(s[1], wrapping_add(wal_word(b, i, native, target), s[2]))
    IN  <<s0, wrapping_add(s[2], wrapping_add(wal_word(b, i + 4, native, target), s0))>>

RECURSIVE checksum_wal_loop(_, _, _, _, _, _)
\* while i < buf.len() { ...; i += 8 }, for i from lo up to hi: the steps of the first
\* half of the range, then those of the second from what the first half left
checksum_wal_loop(b, s, lo, hi, native, target) ==
    IF lo >= hi THEN s
    ELSE IF hi - lo <= 8 THEN checksum_wal_step(b, s, lo, native, target)
    ELSE LET mid == lo + 8 * (((hi - lo + 7) \div 8) \div 2)
             first == checksum_wal_loop(b, s, lo, mid, native, target)
         IN  IF Len(first) = 2
                 THEN checksum_wal_loop(b, first, mid, hi, native, target)
                 ELSE first

\* checksum_wal(buf, _wal_header, input, native_endian)
checksum_wal(b, s, native, target) ==
    IF Len(b) % 8 # 0 THEN Failed("panic")
    ELSE Done(checksum_wal_loop(b, s, 0, Len(b), native, target))

----------------------------------------------------------------------------
(* The WAL header and the WAL frame.                                       *)

WAL_HEADER_SIZE == 32
WAL_FRAME_HEADER_SIZE == 24
\* 0x377f0682 and 0x377f0683
WAL_MAGIC_LE == <<130, 6, 127, 55>>
WAL_MAGIC_BE == <<131, 6, 127, 55>>

\* the length of the slice begin_write_wal_frame sums after the frame header
ChecksummedLen == 4096
\* Buffer::allocate(512) of begin_write_wal_header and begin_read_wal_header
WalHeaderBufferSize == 512

WalHeader(magic, file_format, page_size, checkpoint_seq, salt_1, salt_2, checksum_1, checksum_2) ==
    [magic |-> magic, file_format |-> file_format, page_size |-> page_size,
     checkpoint_seq |-> checkpoint_seq, salt_1 |-> salt_1, salt_2 |-> salt_2,
     checksum_1 |-> checksum_1, checksum_2 |-> checksum_2]

\* finish_read_wal_header: the eight fields, each from its four bytes
finish_read_wal_header(b) ==
    IF Len(b) < WAL_HEADER_SIZE THEN Failed("panic")
    ELSE Done(WalHeader(from_be_bytes(Bytes(b, 0, 4)), from_be_bytes(Bytes(b, 4, 4)),
                        from_be_bytes(Bytes(b, 8, 4)), from_be_bytes(Bytes(b, 12, 4)),
                        from_be_bytes(Bytes(b, 16, 4)), from_be_bytes(Bytes(b, 20, 4)),
                        from_be_bytes(Bytes(b, 24, 4)), from_be_bytes(Bytes(b, 28, 4))))

\* the fields in the order magic, file_format, page_size, salt_1, ...: checkpoint_seq left out
wal_header_fields_misplaced(h) ==
    u32_to_be_bytes(h.magic) \o u32_to_be_bytes(h.file_format) \o u32_to_be_bytes(h.page_size)
        \o u32_to_be_bytes(h.salt_1) \o u32_to_be_bytes(h.checkpoint_seq)
        \o u32_to_be_bytes(h.salt_2) \o u32_to_be_bytes(h.checksum_1)
        \o u32_to_be_bytes(h.checksum_2)

\* the first 32 bytes of the buffer of begin_write_wal_header
wal_header_fields(h) ==
    u32_to_be_bytes(h.magic) \o u32_to_be_bytes(h.file_format) \o u32_to_be_bytes(h.page_size)
        \o u32_to_be_bytes(h.checkpoint_seq) \o u32_to_be_bytes(h.salt_1)
        \o u32_to_be_bytes(h.salt_2) \o u32_to_be_bytes(h.checksum_1)
        \o u32_to_be_bytes(h.checksum_2)

\* begin_write_wal_header: Buffer::allocate(512) with the fields over its first 32 bytes
wal_header_buffer(h) == wal_header_fields(h) \o Zeros(WalHeaderBufferSize - WAL_HEADER_SIZE)

\* the mode taken from the low bit of the magic alone
use_native_endian_of_magic(h, target) == (h.magic[1] % 2) = 1

\* use_native_endian = cfg!(target_endian = "big") as u32 == wal_header.magic & 1
use_native_endian(h, target) == (IF target = "big" THEN 1 ELSE 0) = (h.magic[1] % 2)

\* begin_write_wal_frame up to the frame buffer: the buffer of contents.len() + 24 bytes and
\* final_checksum.  Filling buf[24 + content_len..24 + 4096] and slicing buf[24..24 + 4096]
\* are out of range, and abort, when the contents are shorter than 4096 bytes.
begin_write_wal_frame(p, size, h, checksums, target) ==
    IF ~p.contents.some THEN Failed("panic")
    ELSE LET contents_buf == p.contents.v.buffer
             content_len == Len(contents_buf)
             head == u32_to_be_bytes(U32(p.id)) \o u32_to_be_bytes(size)
                         \o u32_to_be_bytes(h.salt_1) \o u32_to_be_bytes(h.salt_2)
             native == use_native_endian(h, target)
             header_checksum == checksum_wal(Bytes(head, 0, 8), checksums, native, target)
             final_checksum ==
                 checksum_wal(Bytes(contents_buf, 0, ChecksummedLen), header_checksum.v,
                              native, target)
         IN  IF content_len < ChecksummedLen THEN Failed("panic")
             ELSE IF header_checksum.st # "ok" THEN Failed("panic")
             ELSE IF final_checksum.st # "ok" THEN Failed("panic")
             ELSE [st |-> "ok",
                   v |-> final_checksum.v,
                   buffer |-> head \o u32_to_be_bytes(final_checksum.v[1])
                                  \o u32_to_be_bytes(final_checksum.v[2]) \o contents_buf]

----------------------------------------------------------------------------
(* The runs.  Each specification draws the inputs of one codec in Init and *)
(* applies the codec's functions to them.                                  *)

NoValidation == [st |-> "none", t |-> U64(0)]

VarintIdle == value = U64(0) /\ written = 0 /\ decoded = NoResult
ValueIdle == serial_type = U64(0) /\ validated = NoValidation /\ val = ValNone
RecordIdle == payload = <<>> /\ record = EmptyRecord /\ outcome = "none"

varintVars == <<value, written, decoded>>
valueVars == <<serial_type, validated, val>>
recordVars == <<payload, record, outcome>>

Thresholds(max, min, usable) == [max |-> max, min |-> min, usable |-> usable]

OverflowIdle == payload_size = 0 /\ thresholds = Thresholds(0, 0, 0) /\ overflow = NoOverflowResult
Request(op, idx, overflow_checks) == [op |-> op, idx |-> idx, overflow_checks |-> overflow_checks]
PageIdle == page = PageContent(0, <<>>) /\ request = Request("none", 0, FALSE) /\ reply = Failed("none")
HeaderIdle == header = DefaultDatabaseHeader /\ header_buf = <<>> /\ header_read = Failed("none")
WriteHeaderIdle == db_file = <<>> /\ io = <<>> /\ buffer_to_copy = <<>>
WalIdle ==
    /\ wal_buf = <<>> /\ input = <<>> /\ native_endian = FALSE /\ target_endian = "little"
    /\ checksum = Failed("none")

overflowVars == <<payload_size, thresholds, overflow>>
pageVars == <<page, request, reply>>
headerVars == <<header, header_buf, header_read>>
writeHeaderVars == <<db_file, io, buffer_to_copy>>
walVars == <<wal_buf, input, native_endian, target_endian, checksum>>

NoWalHeader ==
    [magic |-> U32(0), file_format |-> U32(0), page_size |-> U32(0), checkpoint_seq |-> U32(0),
     salt_1 |-> U32(0), salt_2 |-> U32(0), checksum_1 |-> U32(0), checksum_2 |-> U32(0)]
FrameIdle ==
    /\ wal_header = NoWalHeader /\ frame = Failed("none")
LogIdle ==
    /\ wal_file = <<>> /\ wal_io = <<>> /\ frames = <<>> /\ cumulative = <<>>
    /\ wal_header_read = Failed("none")
PagerIdle ==
    /\ pages = <<>> /\ write_counter = 0 /\ syncing = FALSE /\ pager_io = <<>> /\ completed = <<>>
    /\ submitted = <<>>
DumpIdle == tables = <<>> /\ schema_fault = "none" /\ out = <<>> /\ dump_result = "none"

frameVars == <<wal_header, frame>>
logVars == <<wal_file, wal_io, frames, cumulative, wal_header_read>>
pagerVars == <<pages, write_counter, syncing, pager_io, completed, submitted>>
dumpVars == <<tables, schema_fault, out, dump_result>>

\* the state of the WAL writer, the pager and the shell, which the runs above leave alone
walLayerVars == <<frameVars, logVars, pagerVars, dumpVars>>
WalLayerIdle == FrameIdle /\ LogIdle /\ PagerIdle /\ DumpIdle

\* the state of the page layer, which the codecs above leave alone
pageLayerVars == <<overflowVars, pageVars, headerVars, writeHeaderVars, walVars, walLayerVars>>
PageLayerIdle ==
    OverflowIdle /\ PageIdle /\ HeaderIdle /\ WriteHeaderIdle /\ WalIdle /\ WalLayerIdle

\* the state of the codecs, which the page layer leaves alone
codecVars == <<value, buf, written, decoded, serial_type, validated, val, payload, record, outcome>>
CodecIdle == buf = <<>> /\ VarintIdle /\ ValueIdle /\ RecordIdle

InitVarint ==
    /\ harness = "varint"
    /\ \/ pc = "value" /\ value \in VarintValues /\ buf = <<>>
       \/ pc = "buffer" /\ value = U64(0) /\ buf \in VarintBuffers
    /\ written = 0
    /\ decoded = NoResult
    /\ ValueIdle
    /\ RecordIdle
    /\ PageLayerIdle

\* write_varint(&mut [0u8; 9], value), the caller keeping the n bytes written
WriteVarint ==
    /\ harness = "varint"
    /\ pc = "value"
    /\ LET r == write_varint(ZeroBytes(9), value)
       IN  buf' = SubSeq(r.buf, 1, r.n) /\ written' = r.n
    /\ pc' = "written"
    /\ UNCHANGED <<harness, value, decoded, valueVars, recordVars, pageLayerVars>>

\* read_varint(buf), on the bytes just written or on the buffer drawn
ReadVarint ==
    /\ harness = "varint"
    /\ pc \in {"written", "buffer"}
    /\ decoded' = read_varint(buf)
    /\ pc' = IF pc = "written" THEN "roundtrip" ELSE "read"
    /\ UNCHANGED <<harness, value, buf, written, valueVars, recordVars, pageLayerVars>>

NextVarint == WriteVarint \/ ReadVarint

SpecVarint == InitVarint /\ [][NextVarint]_vars

InitValue ==
    /\ harness = "value"
    /\ pc = "input"
    /\ serial_type \in SerialTypes
    /\ buf \in ValueBuffers
    /\ validated = NoValidation
    /\ val = ValNone
    /\ VarintIdle
    /\ RecordIdle
    /\ PageLayerIdle

ValidateSerialType ==
    /\ harness = "value"
    /\ pc = "input"
    /\ validated' = validate_serial_type(serial_type)
    /\ pc' = "validated"
    /\ UNCHANGED <<harness, buf, serial_type, val, varintVars, recordVars, pageLayerVars>>

ReadValue ==
    /\ harness = "value"
    /\ pc \in {"input", "validated"}
    /\ val' = read_value(buf, serial_type)
    /\ pc' = "read"
    /\ UNCHANGED <<harness, buf, serial_type, validated, varintVars, recordVars, pageLayerVars>>

NextValue == ValidateSerialType \/ ReadValue

SpecValue == InitValue /\ [][NextValue]_vars

InitRecord ==
    /\ harness = "record"
    /\ pc = "input"
    /\ payload \in Payloads
    /\ record \in PriorRecords
    /\ outcome = "none"
    /\ buf = <<>>
    /\ VarintIdle
    /\ ValueIdle
    /\ PageLayerIdle

ReadRecord ==
    /\ harness = "record"
    /\ pc = "input"
    /\ LET r == read_record(payload, record)
       IN  record' = r.record /\ outcome' = r.st
    /\ pc' = "done"
    /\ UNCHANGED <<harness, payload, buf, varintVars, valueVars, pageLayerVars>>

NextRecord == ReadRecord

SpecRecord == InitRecord /\ [][NextRecord]_vars

----------------------------------------------------------------------------
(* Varint codec: properties.                                               *)

\* C1: for every u64 value v, read_varint applied to the bytes produced by
\* write_varint(v) returns (v, n), n the byte count write_varint reported, n <= 9.
C1_VarintRoundTrip ==
    (harness = "varint" /\ pc = "roundtrip") =>
        /\ decoded = Ok(value, written)
        /\ written <= 9
        /\ Len(buf) = written

\* a value with a bit above bit 55 has been written in nine bytes and read back
C1_Witness ==
    harness = "varint" /\ pc = "roundtrip" /\ value = Ones(64) /\ written = 9
        /\ decoded.st = "ok"

\* every byte of b is a continuation byte
AllContinue(b) == \A i \in 1..Len(b) : b[i] >= 128

\* C2: read_varint returns a Corrupt error, and never aborts, for every buffer of
\* length 0 to 8 in which all bytes have the high bit set.
C2_TruncatedVarintIsCorrupt ==
    (harness = "varint" /\ pc = "read" /\ Len(buf) <= 8 /\ AllContinue(buf)) =>
        decoded.st = "corrupt"

RECURSIVE BitField(_, _, _)
\* the number made of the cnt bits of v from bit lo up
BitField(v, lo, cnt) == IF cnt = 0 THEN 0 ELSE BitOf(v, lo) + 2 * BitField(v, lo + 1, cnt - 1)

\* v < 2^k
Below(v, k) == \A i \in k..63 : BitOf(v, i) = 0

\* the length of the shortest encoding of v
MinLen(v) ==
    IF ~Below(v, 56) THEN 9 ELSE CHOOSE n \in 1..8 : Below(v, 7 * n) /\ (n = 1 \/ ~Below(v, 7 * (n - 1)))

\* byte j of the n bytes of the encoding of v: 7-bit groups, most significant first,
\* the high bit set on all but the last; in nine bytes the last carries 8 bits
ShortestByte(v, n, j) ==
    IF n = 9
        THEN IF j = 9 THEN BitField(v, 0, 8) ELSE 128 + BitField(v, 8 + 7 * (8 - j), 7)
        ELSE (IF j < n THEN 128 ELSE 0) + BitField(v, 7 * (n - j), 7)

Shortest(v) == [j \in 1..MinLen(v) |-> ShortestByte(v, MinLen(v), j)]

\* C3: write_varint emits the shortest encoding of v: 1 byte when v <= 0x7F, 2 when
\* v <= 0x3FFF, otherwise the least n <= 8 with v < 2^(7n), and 9 bytes exactly when
\* one of bits 56..63 is set; groups most significant first, high bit set on every
\* byte but the last; 0x7F -> [7F], 0x80 -> [81 00], 0x3FFF -> [FF 7F], 2^64-1 -> 9 x FF.
C3_ShortestEncoding ==
    (harness = "varint" /\ pc = "written") =>
        /\ written = MinLen(value)
        /\ buf = Shortest(value)
        /\ (written = 9) = (\E i \in 56..63 : BitOf(value, i) = 1)
        /\ LeqU64(value, U64(127)) => written = 1
        /\ (~LeqU64(value, U64(127)) /\ LeqU64(value, U64(16383))) => written = 2
        /\ value = U64(127) => buf = <<127>>
        /\ value = U64(128) => buf = <<129, 0>>
        /\ value = U64(16383) => buf = <<255, 127>>
        /\ value = Ones(64) => buf = <<255, 255, 255, 255, 255, 255, 255, 255, 255>>

\* a value of 50 to 56 bits has been written in eight bytes
C3_Witness == harness = "varint" /\ pc = "written" /\ written = 8 /\ value = Ones(56)

SpecDecode == (InitValue \/ InitRecord) /\ [][NextValue \/ NextRecord]_vars

----------------------------------------------------------------------------
(* Record decoder: properties.  The header of a payload is read here a     *)
(* second time, byte by byte and in plain numbers: the declared size, the  *)
(* serial types up to it, and for each type the width and the offset of    *)
(* its value.  (No varint of the generated headers has nine bytes.)        *)

\* the width in bytes of a value of serial type t
WidthOf(t) ==
    CASE t \in {0, 8, 9} -> 0
      [] t \in {1, 2, 3, 4} -> t
      [] t = 5 -> 6
      [] t \in {6, 7} -> 8
      [] t >= 12 /\ t % 2 = 0 -> (t - 12) \div 2
      [] t >= 13 /\ t % 2 = 1 -> (t - 13) \div 2
      [] OTHER -> 0

ValidType(t) == t <= 9 \/ t >= 12

\* the declared header size and the length of its varint
DeclaredSize(p) == AsIndex(read_varint(p).v)
SizeLen(p) == read_varint(p).n

\* the serial-type varints end exactly at the declared end of the header
HeaderEndsExactly(p) ==
    /\ read_varint(p).st = "ok"
    /\ DeclaredSize(p) >= SizeLen(p)
    /\ DeclaredSize(p) <= Len(p)
    /\ DeclaredSize(p) = SizeLen(p) \/ p[DeclaredSize(p)] < 128

\* the scan of the header bytes: the varint being read, the columns found, the next offset
ColumnScan(cur, cols, off, bad) == [cur |-> cur, cols |-> cols, off |-> off, bad |-> bad]

ColumnStep(p, s, j) ==
    LET t == s.cur * 128 + (p[j] % 128)
    IN  IF p[j] >= 128 THEN ColumnScan(t, s.cols, s.off, s.bad)
        ELSE ColumnScan(0, Append(s.cols, [t |-> t, off |-> s.off, w |-> WidthOf(t)]),
                        s.off + WidthOf(t), s.bad \/ ~ValidType(t))

RECURSIVE ColumnFold(_, _, _, _)
ColumnFold(p, s, lo, hi) ==
    IF lo > hi THEN s
    ELSE IF lo = hi THEN ColumnStep(p, s, lo)
    ELSE LET half == ColumnFold(p, s, lo, (lo + hi) \div 2)
         IN  IF half.bad THEN half ELSE ColumnFold(p, half, ((lo + hi) \div 2) + 1, hi)

\* the columns the header of p declares: serial type, offset and width of each value
Columns(p) ==
    ColumnFold(p, ColumnScan(0, <<>>, DeclaredSize(p), FALSE), SizeLen(p) + 1, DeclaredSize(p))

\* the i64 of a small number
I64(n) == IF n >= 0 THEN U64(n) ELSE BitNot(U64((-n) - 1))

SignedByte(b) == IF b >= 128 THEN b - 256 ELSE b

\* C4: after a successful read_record the record holds exactly as many values as
\* there are serial-type varints in the header, in header order, value i decoded
\* with serial type i from consecutive payload bytes that start at offset
\* header_size; with more than 64 columns, columns 65 and later follow the first
\* 64 in their original order and none is lost or duplicated.
C4_RecordValues ==
    (harness = "record" /\ pc = "done" /\ outcome = "ok") =>
        LET c == Columns(payload)
        IN  /\ HeaderEndsExactly(payload)
            /\ ~c.bad
            /\ record.payload = payload
            /\ Len(record.values) = Len(c.cols)
            /\ \A i \in 1..Len(c.cols) :
                 record.values[i] =
                     read_value(SubSeq(payload, c.cols[i].off + 1, c.cols[i].off + c.cols[i].w),
                                U64(c.cols[i].t)).v
            /\ \A k \in ColumnCounts :
                 payload = MakePayload(1, k, HeaderSize(1, k), 0) =>
                     /\ Len(record.values) = k
                     /\ \A i \in 1..k :
                          record.values[i] = Integer(I64(SignedByte((37 * i) % 256)))

\* a record of more than 64 columns has been decoded
C4_Witness ==
    harness = "record" /\ pc = "done" /\ outcome = "ok"
        /\ Len(record.values) = SmallVecInline + 2
        /\ payload = MakePayload(1, SmallVecInline + 2, HeaderSize(1, SmallVecInline + 2), 0)

S2Values == <<Null, Integer(U64(42)), Text(<<104, 105>>)>>

\* C5 as stated: decoding the ten bytes 04 00 04 13 00 00 00 2A 68 69 with
\* read_record yields the three values null, 42, "hi".
C5_S2Decodes ==
    (harness = "record" /\ pc = "done" /\ payload = S2Payload) =>
        outcome = "ok" /\ record.values = S2Values

\* C5, amended: the text "hi" has serial type 0x11, so the record is encoded as
\* header 04 00 04 11 and body 00 00 00 2A 68 69, and these ten bytes decode to
\* null, 42, "hi"; with 0x13 the header declares a text of 3 bytes, one more than
\* the body holds, and read_record returns Corrupt.
C5_S2Amended ==
    (harness = "record" /\ pc = "done") =>
        /\ payload = S2Text17 => outcome = "ok" /\ record.values = S2Values
        /\ payload = S2Payload => outcome = "corrupt"

C5_Witness ==
    harness = "record" /\ pc = "done" /\ payload = S2Text17 /\ outcome = "ok"
        /\ Len(record.values) = 3

\* the declared header size is smaller than its own varint, or a serial-type varint
\* lies across the declared end of the header
HeaderOverrun(p) ==
    /\ read_varint(p).st = "ok"
    /\ \/ DeclaredSize(p) < SizeLen(p)
       \/ /\ DeclaredSize(p) > SizeLen(p)
          /\ DeclaredSize(p) < Len(p)
          /\ p[DeclaredSize(p)] >= 128

\* C6: read_record returns a Corrupt error, rather than aborting, whenever the
\* serial-type varints do not end exactly at the header's declared end.
C6_HeaderOverrunIsCorrupt ==
    (harness = "record" /\ pc = "done" /\ HeaderOverrun(payload)) => outcome = "corrupt"

\* C8: a failed read_record leaves no partial result: the record ends either with
\* all the values of the payload or with none.
C8_NoPartialRecord ==
    (harness = "record" /\ pc = "done" /\ outcome # "ok") => record.values = <<>>

----------------------------------------------------------------------------
(* Value decoder: properties.                                              *)

\* the serial type is a number of the model's plain integers (t < 2^31)
SmallType(t) == t[4] < 128 /\ \A j \in 5..U64Bytes : t[j] = 0

\* the buffer holds fewer bytes than a value of serial type t has
TooShort(b, t) ==
    IF SmallType(t) THEN ValidType(AsIndex(t)) /\ Len(b) < WidthOf(AsIndex(t))
    ELSE LtU64(U64(2 * Len(b) + 12 + Mod2(t)), t)

\* C7: read_value returns a Corrupt error and no value whenever the buffer holds
\* fewer bytes than the width of the serial type (1,2,3,4,6,8 bytes for tags 1..6,
\* 8 for tag 7, (t-12)/2 for blobs, (t-13)/2 for text), and read_record returns
\* Corrupt whenever the widths of the header's serial types sum to more than the
\* payload bytes that remain after the header.
C7_ShortBufferIsCorrupt ==
    /\ (harness = "value" /\ pc = "read" /\ TooShort(buf, serial_type)) => val = ValCorrupt
    /\ (harness = "record" /\ pc = "done" /\ HeaderEndsExactly(payload)
            /\ ~Columns(payload).bad /\ Columns(payload).off > Len(payload)) =>
           outcome = "corrupt"

\* a record whose second column is cut short has been refused
C7_Witness ==
    harness = "record" /\ pc = "done" /\ outcome = "corrupt"
        /\ HeaderEndsExactly(payload)
        /\ ~Columns(payload).bad
        /\ Columns(payload).off > Len(payload)
        /\ Len(Columns(payload).cols) >= 2
        /\ Columns(payload).cols[1].off + Columns(payload).cols[1].w <= Len(payload)

\* the number the big-endian bytes bs spell, for fewer than four bytes
RECURSIVE BigEndian(_)
BigEndian(bs) ==
    IF bs = <<>> THEN 0 ELSE 256 * BigEndian(SubSeq(bs, 1, Len(bs) - 1)) + bs[Len(bs)]

\* the two's-complement value of the bytes bs, as an i64
SignExtended(bs) ==
    [j \in 1..U64Bytes |->
        IF j <= Len(bs) THEN bs[Len(bs) + 1 - j] ELSE IF bs[1] >= 128 THEN 255 ELSE 0]

\* C9: for every serial type t in 1..6 and every buffer of at least width(t) bytes,
\* read_value returns the two's-complement, sign-extended 64-bit value of the first
\* width(t) big-endian bytes and reports width(t) bytes consumed, so 80 00 00 with
\* tag 3 gives -8388608 and 7f ff ff gives 8388607; tags 0, 8 and 9 return null,
\* integer 0 and integer 1 and consume 0 bytes whatever the buffer contains.
C9_SignExtendedIntegers ==
    (harness = "value" /\ pc = "read") =>
        /\ \A n \in 1..6 :
             (serial_type = U64(n) /\ Len(buf) >= WidthOf(n)) =>
                 /\ val = ValOk(Integer(SignExtended(Take(buf, WidthOf(n)))), WidthOf(n))
                 /\ WidthOf(n) <= 3 =>
                      val.v.int = I64(BigEndian(Take(buf, WidthOf(n)))
                                      - (IF buf[1] >= 128 THEN Pow2(8 * WidthOf(n)) ELSE 0))
        /\ (serial_type = U64(3) /\ buf = <<128, 0, 0>>) => val = ValOk(Integer(I64(-8388608)), 3)
        /\ (serial_type = U64(3) /\ buf = <<127, 255, 255>>) => val = ValOk(Integer(I64(8388607)), 3)
        /\ serial_type = U64(0) => val = ValOk(Null, 0)
        /\ serial_type = U64(8) => val = ValOk(Integer(I64(0)), 0)
        /\ serial_type = U64(9) => val = ValOk(Integer(I64(1)), 0)

\* the three bytes 80 00 00 have been read with tag 3
C9_Witness ==
    harness = "value" /\ pc = "read" /\ serial_type = U64(3) /\ buf = <<128, 0, 0>>
        /\ val.st = "ok" /\ val.v.int[U64Bytes] = 255

\* t <= 9 or t >= 12, in the bytes of t
ValidU64(t) == t # U64(10) /\ t # U64(11)

\* C10: a serial type t is a blob exactly when t >= 12 and even, with size (t-12)/2,
\* a text exactly when t >= 13 and odd, with size (t-13)/2, and valid exactly when
\* t <= 9 or t >= 12; validate_serial_type returns t unchanged for every valid t and
\* a Corrupt error for 10 and 11, and read_value also returns Corrupt for 10 and 11.
C10_SerialTypeClasses ==
    (harness = "value" /\ pc \in {"validated", "read"}) =>
        /\ is_blob(serial_type) = (LeqU64(U64(12), serial_type) /\ BitOf(serial_type, 0) = 0)
        /\ is_string(serial_type) = (LeqU64(U64(13), serial_type) /\ BitOf(serial_type, 0) = 1)
        /\ is_valid(serial_type) = ValidU64(serial_type)
        /\ is_valid(serial_type) = (LeqU64(serial_type, U64(9)) \/ LeqU64(U64(12), serial_type))
        /\ (SmallType(serial_type) /\ is_blob(serial_type)) =>
               blob_size(serial_type) = U64((AsIndex(serial_type) - 12) \div 2)
        /\ (SmallType(serial_type) /\ is_string(serial_type)) =>
               string_size(serial_type) = U64((AsIndex(serial_type) - 13) \div 2)
        /\ is_blob(serial_type) => AddU64(AddU64(blob_size(serial_type), blob_size(serial_type)), U64(12)) = serial_type
        /\ is_string(serial_type) => AddU64(AddU64(string_size(serial_type), string_size(serial_type)), U64(13)) = serial_type
        /\ validated.st # "none" =>
               validated = (IF ValidU64(serial_type) THEN [st |-> "ok", t |-> serial_type]
                            ELSE [st |-> "corrupt", t |-> U64(0)])
        /\ (pc = "read" /\ ~ValidU64(serial_type)) => val = ValCorrupt
        /\ (pc = "read" /\ SmallType(serial_type) /\ is_blob(serial_type)
                /\ Len(buf) >= WidthOf(AsIndex(serial_type))) =>
               val = ValOk(Blob(Take(buf, WidthOf(AsIndex(serial_type)))), WidthOf(AsIndex(serial_type)))
        /\ (pc = "read" /\ SmallType(serial_type) /\ is_string(serial_type)
                /\ Len(buf) >= WidthOf(AsIndex(serial_type))) =>
               val = ValOk(Text(Take(buf, WidthOf(AsIndex(serial_type)))), WidthOf(AsIndex(serial_type)))

\* serial type 10 has been validated and then read
C10_Witness ==
    harness = "value" /\ pc = "read" /\ serial_type = U64(10)
        /\ validated.st = "corrupt" /\ val.st = "corrupt"

----------------------------------------------------------------------------
(* Overflow rule: the run and its properties.                              *)

\* usable sizes: the smallest the format allows, common ones, the largest
UsableSizes == {480, 512, 1024, 4096, 65536}

\* the thresholds the format derives from the usable size U, for leaf table pages
\* and for index pages
LeafThresholds(U) == Thresholds(U - 35, (((U - 12) * 32) \div 255) - 23, U)
IndexThresholds(U) == Thresholds((((U - 12) * 64) \div 255) - 23, (((U - 12) * 32) \div 255) - 23, U)
FormatThresholds == {LeafThresholds(U) : U \in UsableSizes} \cup {IndexThresholds(U) : U \in UsableSizes}

\* thresholds no page size gives: both the same, or close to one another
OtherThresholds == {Thresholds(10, 10, 100), Thresholds(20, 10, 24), Thresholds(40, 38, 50)}

PayloadSizes(t) ==
    {P \in {0, 1, 5000}
         \cup {t.max + d : d \in (-MaxSlack)..MaxSlack}
         \cup {t.min + k * (t.usable - 4) + d : k \in 0..MaxOverflowPages, d \in (-MaxSlack)..MaxSlack}
         \cup {t.max + k * (t.usable - 4) + d : k \in 1..MaxOverflowPages, d \in (-MaxSlack)..MaxSlack}
       : P >= 0}

InitOverflow ==
    /\ harness = "overflow"
    /\ pc = "input"
    /\ thresholds \in FormatThresholds \cup OtherThresholds
    /\ payload_size \in PayloadSizes(thresholds)
    /\ overflow = NoOverflowResult
    /\ CodecIdle /\ WalLayerIdle
    /\ PageIdle /\ HeaderIdle /\ WriteHeaderIdle /\ WalIdle

PayloadOverflows ==
    /\ harness = "overflow"
    /\ pc = "input"
    /\ overflow' = payload_overflows(payload_size, thresholds.max, thresholds.min, thresholds.usable)
    /\ pc' = "done"
    /\ UNCHANGED <<harness, payload_size, thresholds, codecVars, walLayerVars, pageVars, headerVars,
                   writeHeaderVars, walVars>>

NextOverflow == PayloadOverflows

SpecOverflow == InitOverflow /\ [][NextOverflow]_vars

\* the inline bytes of a payload that overflows
Local == overflow.n - 4

\* C11: payload_overflows(P, M_max, M_min, U) reports no overflow exactly when
\* P <= M_max; otherwise it reports overflow with local = M_min + (P - M_min) mod
\* (U - 4), replaced by M_min when that exceeds M_max, and returns local + 4.  For
\* thresholds derived from U as the format prescribes, local never exceeds M_max
\* and P - local is positive; for U = 4096 and a 5000-byte table-leaf payload local
\* is 908, leaving 4092 bytes for one overflow page.
C11_OverflowSplit ==
    (harness = "overflow" /\ pc = "done") =>
        /\ overflow.st = "ok"
        /\ overflow.overflows = (payload_size > thresholds.max)
        /\ ~overflow.overflows => overflow.n = 0
        /\ overflow.overflows =>
             \/ /\ Local >= thresholds.min
                /\ Local <= thresholds.max
                /\ Local < thresholds.min + (thresholds.usable - 4)
                /\ (payload_size - Local) % (thresholds.usable - 4) = 0
             \/ /\ Local = thresholds.min
                /\ thresholds.min + ((payload_size - thresholds.min) % (thresholds.usable - 4))
                       > thresholds.max
        /\ (overflow.overflows /\ thresholds \in FormatThresholds) =>
             Local <= thresholds.max /\ payload_size - Local > 0
        /\ (thresholds = LeafThresholds(4096) /\ payload_size = 5000) =>
             overflow.overflows /\ Local = 908 /\ payload_size - Local = 4096 - 4

\* a payload whose remainder lies above the threshold max has been cut at the threshold min
C11_Witness ==
    harness = "overflow" /\ pc = "done" /\ overflow.overflows
        /\ thresholds \in FormatThresholds
        /\ Local = thresholds.min
        /\ (payload_size - thresholds.min) % (thresholds.usable - 4) # 0

----------------------------------------------------------------------------
(* B-tree pages: the pages of the runs.  A page is laid out from the cells  *)
(* it is to hold: the header at the offset, the cell pointer array, and the *)
(* cells packed at the end of the page, the first cell last.                *)

PageSize == 512
LargestPageSize == 65536

PageTypes == {"IndexInterior", "TableInterior", "IndexLeaf", "TableLeaf"}

TypeByte(type) ==
    CASE type = "IndexInterior" -> 2
      [] type = "TableInterior" -> 5
      [] type = "IndexLeaf" -> 10
      [] type = "TableLeaf" -> 13

HeaderLen(type) == IF type \in {"IndexInterior", "TableInterior"} THEN 12 ELSE 8

\* the thresholds a caller passes for a page of the type, of usable size 480
PageThresholds(type) ==
    (IF type = "TableLeaf" THEN {LeafThresholds(480)} ELSE {IndexThresholds(480)})
        \cup {Thresholds(10, 10, 100)}

\* the payload sizes of the cells of a page, by pattern
PayloadPattern(pattern, t) ==
    CASE pattern = "inline" -> <<0, 1, t.max>>
      [] pattern = "overflow" -> <<t.max + 1, t.min + (t.usable - 4) + 20, 20000, Min(130, t.max)>>
      [] pattern = "empty" -> <<>>

PagePatterns == {"inline", "overflow", "empty"}

RowidOf(i) == CASE i = 1 -> U64(1) [] i = 2 -> U64(200) [] i = 3 -> U64(70000) [] OTHER -> Ones(64)
LeftChildOf(i) == <<1, 2, 3, 4 + i>>
OverflowPageOf(i) == <<10, 11, 12, 200 + i>>
PayloadByte(i, j) == (31 * i + 7 * j) % 256

\* the bytes of a payload of size P kept in the cell
InlineSize(t, P) ==
    IF P <= t.max THEN P
    ELSE IF t.min + ((P - t.min) % (t.usable - 4)) <= t.max
        THEN t.min + ((P - t.min) % (t.usable - 4))
    ELSE t.min

VarintOf(v) == write_varint_to_vec(v, <<>>)

\* the bytes of cell i of a page of the type, its payload of size P
CellBytes(type, t, i, P) ==
    LET body == [j \in 1..InlineSize(t, P) |-> PayloadByte(i, j)]
                    \o (IF P > t.max THEN OverflowPageOf(i) ELSE <<>>)
    IN  CASE type = "IndexInterior" -> LeftChildOf(i) \o VarintOf(U64(P)) \o body
          [] type = "TableInterior" -> LeftChildOf(i) \o VarintOf(RowidOf(i))
          [] type = "IndexLeaf" -> VarintOf(U64(P)) \o body
          [] type = "TableLeaf" -> VarintOf(U64(P)) \o VarintOf(RowidOf(i)) \o body

RECURSIVE CellStart(_, _, _, _, _)
\* where cell i starts: the cells are packed downwards from the end of the page
CellStart(type, t, sizes, i, size) ==
    IF i = 0 THEN size
    ELSE CellStart(type, t, sizes, i - 1, size) - Len(CellBytes(type, t, i, sizes[i]))

BE16(n) == <<(n \div 256) % 256, n % 256>>

RECURSIVE CellsPacked(_, _, _, _)
\* the cells i down to 1 as they lie at the end of the page
CellsPacked(type, t, sizes, i) ==
    IF i = 0 THEN <<>>
    ELSE CellBytes(type, t, i, sizes[i]) \o CellsPacked(type, t, sizes, i - 1)

\* the page: its bytes from the header fields, the cell pointers and the cells
LayOut(type, offset, t, sizes, size, type_byte, content_area) ==
    LET n == Len(sizes)
        head == <<type_byte, 0, 0>> \o BE16(n) \o BE16(content_area) \o <<0>>
                    \o (IF HeaderLen(type) = 12 THEN <<0, 0, 1, 44>> ELSE <<>>)
        ptrs == [k \in 1..(2 * n) |->
                    BE16(CellStart(type, t, sizes, (k + 1) \div 2, size))[2 - (k % 2)]]
        front == [k \in 1..offset |-> 0] \o head \o ptrs
        cells == CellsPacked(type, t, sizes, n)
    IN  front \o [k \in 1..(size - Len(front) - Len(cells)) |-> 0] \o cells

\* the cells fit behind the cell pointer array
Fits(type, offset, t, sizes) ==
    offset + HeaderLen(type) + 2 * Len(sizes)
        <= CellStart(type, t, sizes, Len(sizes), PageSize)

BtreePage(type, offset, t, pattern) ==
    PageContent(offset,
                LayOut(type, offset, t, PayloadPattern(pattern, t), PageSize, TypeByte(type),
                       CellStart(type, t, PayloadPattern(pattern, t),
                                 Len(PayloadPattern(pattern, t)), PageSize)))

\* a page of one cell under every type byte, laid out as a leaf table page when the
\* byte is no page type
TypeBytePage(type_byte) ==
    LET type == IF \E ty \in PageTypes : TypeByte(ty) = type_byte
                    THEN CHOOSE ty \in PageTypes : TypeByte(ty) = type_byte
                    ELSE "TableLeaf"
    IN  PageContent(0, LayOut(type, 0, LeafThresholds(480), <<1>>, 32, type_byte,
                              CellStart(type, LeafThresholds(480), <<1>>, 1, 32)))

\* an empty page of the largest size: its cell content area, 65536, is stored as 0
LargestPage(type, offset) ==
    PageContent(offset, LayOut(type, offset, LeafThresholds(LargestPageSize), <<>>,
                               LargestPageSize, TypeByte(type), LargestPageSize % 65536))

InitPage ==
    /\ harness = "page"
    /\ pc = "loaded"
    /\ \/ \E type \in PageTypes, offset \in {0, DATABASE_HEADER_SIZE}, pattern \in PagePatterns :
            /\ thresholds \in PageThresholds(type)
            /\ Fits(type, offset, thresholds, PayloadPattern(pattern, thresholds))
            /\ page = BtreePage(type, offset, thresholds, pattern)
       \/ \E type_byte \in 0..255 :
            /\ thresholds = LeafThresholds(480)
            /\ page = TypeBytePage(type_byte)
       \/ \E type \in PageTypes, offset \in {0, DATABASE_HEADER_SIZE} :
            /\ thresholds = LeafThresholds(LargestPageSize)
            /\ page = LargestPage(type, offset)
    /\ request = Request("none", 0, FALSE)
    /\ reply = Failed("none")
    /\ payload_size = 0
    /\ overflow = NoOverflowResult
    /\ CodecIdle /\ WalLayerIdle
    /\ HeaderIdle /\ WriteHeaderIdle /\ WalIdle

\* the call of one accessor on the loaded page
Call(op, idx, overflow_checks, result) ==
    /\ harness = "page"
    /\ pc = "loaded"
    /\ request' = Request(op, idx, overflow_checks)
    /\ reply' = result
    /\ pc' = "returned"
    /\ UNCHANGED <<harness, page, payload_size, thresholds, overflow, codecVars, walLayerVars, headerVars,
                   writeHeaderVars, walVars>>

TryFrom == Call("try_from", 0, FALSE, PageType_try_from(ByteAt(page.buffer, page.offset)))
PageType == Call("page_type", 0, FALSE, page_type(page))
MaybePageType == Call("maybe_page_type", 0, FALSE, maybe_page_type(page))
PageHeaderSize == Call("header_size", 0, FALSE, header_size(page))
RightmostPointer == Call("rightmost_pointer", 0, FALSE, rightmost_pointer(page))
CellContentArea == Call("cell_content_area", 0, FALSE, cell_content_area(page))
UnallocatedRegionSize ==
    \E overflow_checks \in BOOLEAN :
        Call("unallocated_region_size", 0, overflow_checks,
             unallocated_region_size(page, overflow_checks))
CellGet ==
    \E idx \in 0..MaxCellIndex :
        /\ idx < cell_count(page).v
        /\ Call("cell_get", idx, FALSE, cell_get(page, idx, thresholds))
CellGetRawRegion ==
    \E idx \in 0..MaxCellIndex :
        /\ idx < cell_count(page).v
        /\ Call("cell_get_raw_region", idx, FALSE, cell_get_raw_region(page, idx, thresholds))

NextPage ==
    \/ TryFrom \/ PageType \/ MaybePageType \/ PageHeaderSize \/ RightmostPointer
    \/ CellContentArea \/ UnallocatedRegionSize \/ CellGet \/ CellGetRawRegion

SpecPage == InitPage /\ [][NextPage]_vars

----------------------------------------------------------------------------
(* Cells: what cell_get and cell_get_raw_region return, against the cells  *)
(* the page was laid out from.                                             *)

\* the page number of four bytes, the first the most significant
PageNumber(bs) == ((bs[1] * 256 + bs[2]) * 256 + bs[3]) * 256 + bs[4]

\* the loaded page is the page laid out for the type and the pattern
IsBtreePage(type, pattern) ==
    /\ Len(page.buffer) = PageSize
    /\ ByteAt(page.buffer, page.offset) = TypeByte(type)
    /\ Fits(type, page.offset, thresholds, PayloadPattern(pattern, thresholds))
    /\ page = BtreePage(type, page.offset, thresholds, pattern)

\* cell_get has returned the cell i of the type, of payload size P, as it was laid out:
\* the payload is the bytes kept in the cell, the overflow page the four bytes after
\* them when P is above the threshold max
CellAsLaidOut(type, t, i, P) ==
    /\ reply.st = "ok"
    /\ reply.v.kind = type \o "Cell"
    /\ type \in {"IndexInterior", "TableInterior"} =>
         AsIndex(reply.v.left_child_page) = PageNumber(LeftChildOf(i))
    /\ type \in {"TableInterior", "TableLeaf"} => reply.v.rowid = RowidOf(i)
    /\ type # "TableInterior" =>
         /\ reply.v.payload_size = U64(P)
         /\ reply.v.payload = [j \in 1..InlineSize(t, P) |-> PayloadByte(i, j)]
         /\ P <= t.max => (Len(reply.v.payload) = P /\ ~reply.v.first_overflow_page.some)
         /\ P > t.max =>
              /\ reply.v.first_overflow_page.some
              /\ AsIndex(reply.v.first_overflow_page.v) = PageNumber(OverflowPageOf(i))

CellGetReturned == harness = "page" /\ pc = "returned" /\ request.op = "cell_get"

RawRegionReturned == harness = "page" /\ pc = "returned" /\ request.op = "cell_get_raw_region"

\* C13: cell_get_raw_region returns for the cell at index i the start offset stored
\* in slot i of the cell pointer array and the number of bytes the cell's encoding
\* occupies: 4 + rowid varint (table interior), payload-size varint + rowid varint +
\* inline payload (table leaf), 4 + payload-size varint + inline payload (index
\* interior), payload-size varint + inline payload (index leaf), with 4 more bytes
\* for the overflow pointer only when the payload overflows.
C13_RawRegionIsTheCell ==
    (RawRegionReturned /\ thresholds \in FormatThresholds) =>
        \A type \in PageTypes, pattern \in PagePatterns :
            IsBtreePage(type, pattern) =>
                LET sizes == PayloadPattern(pattern, thresholds)
                    i == request.idx + 1
                IN  /\ reply.st = "ok"
                    /\ reply.v[1] = CellStart(type, thresholds, sizes, i, PageSize)
                    /\ reply.v[2] = Len(CellBytes(type, thresholds, i, sizes[i]))

\* the part of C13 the table pages keep: start and length are those of the cell
C13_TableRegions ==
    (RawRegionReturned /\ thresholds \in FormatThresholds) =>
        \A type \in {"TableInterior", "TableLeaf"}, pattern \in PagePatterns :
            IsBtreePage(type, pattern) =>
                LET sizes == PayloadPattern(pattern, thresholds)
                    i == request.idx + 1
                IN  reply = Done(<<CellStart(type, thresholds, sizes, i, PageSize),
                                   Len(CellBytes(type, thresholds, i, sizes[i]))>>)

\* on the index pages the length is the cell's and four bytes more
C13_IndexRegions ==
    (RawRegionReturned /\ thresholds \in FormatThresholds) =>
        \A type \in {"IndexInterior", "IndexLeaf"}, pattern \in PagePatterns :
            IsBtreePage(type, pattern) =>
                LET sizes == PayloadPattern(pattern, thresholds)
                    i == request.idx + 1
                IN  reply = Done(<<CellStart(type, thresholds, sizes, i, PageSize),
                                   Len(CellBytes(type, thresholds, i, sizes[i])) + 4>>)

----------------------------------------------------------------------------
(* Page type.                                                              *)

TypeByteOfPage == ByteAt(page.buffer, page.offset)
ValidTypeBytes == {2, 5, 10, 13}
TypeDependent == {"page_type", "header_size", "rightmost_pointer", "cell_get", "cell_get_raw_region"}

\* PageType::try_from gives the variant of 2, 5, 10, 13 and Corrupt for every other
\* byte; maybe_page_type gives None for every other byte
C14_TryFromByBytes ==
    (harness = "page" /\ pc = "returned") =>
        /\ request.op = "try_from" =>
             /\ TypeByteOfPage = 2 => reply = Done("IndexInterior")
             /\ TypeByteOfPage = 5 => reply = Done("TableInterior")
             /\ TypeByteOfPage = 10 => reply = Done("IndexLeaf")
             /\ TypeByteOfPage = 13 => reply = Done("TableLeaf")
             /\ TypeByteOfPage \notin ValidTypeBytes => reply.st = "corrupt"
        /\ request.op = "maybe_page_type" =>
             /\ reply.st = "ok"
             /\ reply.v.some = (TypeByteOfPage \in ValidTypeBytes)

\* C14: a page whose type byte is not one of 2, 5, 10, 13 is reported as a Corrupt
\* error: try_from returns the variant for those four and Corrupt for every other
\* byte, maybe_page_type returns None, and page_type, header_size, rightmost_pointer,
\* cell_get and cell_get_raw_region return the error to the caller and do not abort.
C14_InvalidTypeIsCorrupt ==
    (harness = "page" /\ pc = "returned" /\ TypeByteOfPage \notin ValidTypeBytes) =>
        /\ request.op = "try_from" => reply.st = "corrupt"
        /\ request.op = "maybe_page_type" => (reply.st = "ok" /\ ~reply.v.some)
        /\ request.op \in TypeDependent => reply.st = "corrupt"

\* what the accessors do on such a page: the unwrap in page_type aborts
C14_InvalidTypeAborts ==
    (harness = "page" /\ pc = "returned" /\ TypeByteOfPage \notin ValidTypeBytes
        /\ request.op \in TypeDependent) => reply.st = "panic"

----------------------------------------------------------------------------
(* Cell content area.                                                      *)

\* the two bytes at 5 of the page header
StoredContentArea ==
    256 * ByteAt(page.buffer, page.offset + 5) + ByteAt(page.buffer, page.offset + 6)

\* the end of the cell pointer array: page start offset + header size + 2 x cell count
PointerArrayEnd ==
    page.offset
        + (IF TypeByteOfPage \in {2, 5} THEN 12 ELSE 8)
        + 2 * (256 * ByteAt(page.buffer, page.offset + 3) + ByteAt(page.buffer, page.offset + 4))

\* C15: a stored cell_content_area of 0 is read as 65536: on a 65536-byte page whose
\* header field at 5 holds 0, cell_content_area reports 65536 and
\* unallocated_region_size is 65536 minus the end of the cell pointer array, without
\* arithmetic underflow.
C15_ZeroIs65536 ==
    (harness = "page" /\ pc = "returned" /\ Len(page.buffer) = LargestPageSize
        /\ StoredContentArea = 0) =>
        /\ request.op = "cell_content_area" => reply = Done(65536)
        /\ request.op = "unallocated_region_size" => reply = Done(65536 - PointerArrayEnd)

\* what the two accessors return on such a page: the field as stored, and a
\* subtraction below zero that aborts or wraps
C15_ZeroStaysZero ==
    (harness = "page" /\ pc = "returned" /\ Len(page.buffer) = LargestPageSize
        /\ StoredContentArea = 0) =>
        /\ request.op = "cell_content_area" => reply = Done(0)
        /\ request.op = "unallocated_region_size" =>
             IF request.overflow_checks THEN reply.st = "panic"
             ELSE /\ reply.st = "wrapped"
                  /\ AddU64(reply.v, U64(PointerArrayEnd)) = U64(0)

\* a field that is not 0 is reported as stored and the region size is the difference
C15_StoredArea ==
    (harness = "page" /\ pc = "returned" /\ TypeByteOfPage \in ValidTypeBytes
        /\ StoredContentArea # 0) =>
        /\ request.op = "cell_content_area" => reply = Done(StoredContentArea)
        /\ request.op = "unallocated_region_size" =>
             reply = Done(StoredContentArea - PointerArrayEnd)

----------------------------------------------------------------------------
(* Database header: the run.  A header is encoded into a buffer and the    *)
(* buffer decoded; the 100 bytes of a file are decoded as they are found.  *)

I32Min == -2147483647 - 1
I32Max == 2147483647

CacheSizes == {0, 1, -1, 10, 500, -2000, 255, 256, -256, 65536, -65537, 16777216, I32Max, I32Min}

\* byte i of the fields of pattern k
FieldByte(k, i) ==
    CASE k = 1 -> 0
      [] k = 2 -> 255
      [] OTHER -> (i * (2 * k + 1) + 11 * k) % 256

FieldU32(k, i) == <<FieldByte(k, i + 3), FieldByte(k, i + 2), FieldByte(k, i + 1), FieldByte(k, i)>>

\* the header of pattern k with the cache size c; pattern 0 is the default header
HeaderOf(k, c) ==
    IF k = 0 THEN [DefaultDatabaseHeader EXCEPT !.default_page_cache_size = c]
    ELSE [magic |-> [i \in 1..16 |-> FieldByte(k, i)],
          page_size |-> 256 * FieldByte(k, 17) + FieldByte(k, 18),
          write_version |-> FieldByte(k, 19), read_version |-> FieldByte(k, 20),
          reserved_space |-> FieldByte(k, 21), max_embed_frac |-> FieldByte(k, 22),
          min_embed_frac |-> FieldByte(k, 23), min_leaf_frac |-> FieldByte(k, 24),
          change_counter |-> FieldU32(k, 25), database_size |-> FieldU32(k, 29),
          freelist_trunk_page |-> FieldU32(k, 33), freelist_pages |-> FieldU32(k, 37),
          schema_cookie |-> FieldU32(k, 41), schema_format |-> FieldU32(k, 45),
          default_page_cache_size |-> c,
          vacuum_mode_largest_root_page |-> FieldU32(k, 53), text_encoding |-> FieldU32(k, 57),
          user_version |-> FieldU32(k, 61), incremental_vacuum_enabled |-> FieldU32(k, 65),
          application_id |-> FieldU32(k, 69),
          reserved_for_expansion |-> [i \in 1..20 |-> FieldByte(k, 72 + i)],
          version_valid_for |-> FieldU32(k, 93), version_number |-> FieldU32(k, 97)]

Headers == {HeaderOf(k, c) : k \in 0..MaxHeaderPattern, c \in CacheSizes}

\* "SQLite format 3\0" 10 00 01 01, the rest of the 100 bytes of pattern k, the four
\* bytes of the cache size as given
DiskHeader(k, cache) ==
    [i \in 1..DATABASE_HEADER_SIZE |->
        IF i <= 16 THEN Magic[i]
        ELSE IF i <= 20 THEN <<16, 0, 1, 1>>[i - 16]
        ELSE IF 48 < i /\ i <= 52 THEN cache[i - 48]
        ELSE FieldByte(k, i)]

DiskCaches == {<<0, 0, 0, 0>>, <<0, 0, 1, 244>>, <<255, 255, 248, 48>>, <<128, 0, 0, 0>>,
               <<0, 0, 0, 1>>, <<1, 0, 0, 0>>}

\* the first page of a file: the header and the bytes after it
DiskPages ==
    {DiskHeader(k, cache) \o [i \in 1..tail |-> FieldByte(k, i)] :
        k \in 1..MaxHeaderPattern, cache \in DiskCaches, tail \in {0, 412}}

InitHeader ==
    /\ harness = "header"
    /\ \/ /\ pc = "start"
          /\ header \in Headers
          /\ header_buf \in {Zeros(DATABASE_HEADER_SIZE), [i \in 1..DATABASE_HEADER_SIZE |-> 255]}
       \/ /\ pc = "ondisk"
          /\ header = DefaultDatabaseHeader
          /\ header_buf \in DiskPages
    /\ header_read = Failed("none")
    /\ CodecIdle /\ WalLayerIdle
    /\ OverflowIdle /\ PageIdle /\ WriteHeaderIdle /\ WalIdle

\* write_header_to_buf(buf, header)
WriteHeaderToBuf ==
    /\ harness = "header"
    /\ pc = "start"
    /\ write_header_to_buf(header_buf, header).st = "ok"
    /\ header_buf' = write_header_to_buf(header_buf, header).v
    /\ pc' = "written"
    /\ UNCHANGED <<harness, header, header_read, codecVars, walLayerVars, overflowVars, pageVars,
                   writeHeaderVars, walVars>>

\* finish_read_database_header(buf, header)
FinishReadDatabaseHeader ==
    /\ harness = "header"
    /\ pc \in {"written", "ondisk"}
    /\ header_read' = finish_read_database_header(header_buf)
    /\ pc' = IF pc = "written" THEN "read" ELSE "decoded"
    /\ UNCHANGED <<harness, header, header_buf, codecVars, walLayerVars, overflowVars, pageVars,
                   writeHeaderVars, walVars>>

NextHeader == WriteHeaderToBuf \/ FinishReadDatabaseHeader

SpecHeader == InitHeader /\ [][NextHeader]_vars

\* C16 as stated: decoding the 100 bytes write_header_to_buf(h) produced yields a
\* header equal to h in every field, the cache size included, whatever its value.
C16_S2RoundTrip ==
    (harness = "header" /\ pc = "read") => header_read = Done(header)

\* C16: decoding with finish_read_database_header the 100 bytes that
\* write_header_to_buf(h) produced yields a header equal to h in every field when
\* the default_page_cache_size of h is not 0; when it is 0 every other field is
\* equal to that of h and the cache size is decoded as -2000.
C16_S2Amended ==
    (harness = "header" /\ pc = "read") =>
        /\ header_read.st = "ok"
        /\ header.default_page_cache_size # 0 => header_read.v = header
        /\ header.default_page_cache_size = 0 =>
             header_read.v = [header EXCEPT !.default_page_cache_size = -2000]

\* a header of no default field and of a negative cache size has gone through the round trip
C16_Witness ==
    /\ harness = "header" /\ pc = "read"
    /\ header.default_page_cache_size = I32Min
    /\ header.magic # Magic
    /\ header.version_number # header.version_valid_for
    /\ header_read.st = "ok"
    /\ header_read.v.default_page_cache_size < 0

\* the number of four bytes, the first the most significant, as a u32
BE32(b, off) == <<ByteAt(b, off + 3), ByteAt(b, off + 2), ByteAt(b, off + 1), ByteAt(b, off)>>

\* C17: decoding a database header reads each field big-endian from its fixed
\* offset: magic at 0, page_size at 16, write_version at 18, read_version at 19,
\* reserved_space at 20, the fractions at 21..23, change_counter at 24, database size
\* at 28, and so on up to version_number at 96, so that a page starting with
\* "SQLite format 3\0" 10 00 01 01 decodes to page_size 4096, write_version 1,
\* read_version 1; the signed cache size at 48 is reported as -2000 when the stored
\* value is 0 and as stored otherwise.
C17_FieldsAtOffsets ==
    (harness = "header" /\ pc \in {"read", "decoded"}) =>
        LET b == header_buf
            h == header_read.v
            stored == i32_from_be_bytes(SubSeq(b, 49, 52))
        IN  /\ header_read.st = "ok"
            /\ h.magic = SubSeq(b, 1, 16)
            /\ h.page_size = 256 * b[17] + b[18]
            /\ h.write_version = b[19]
            /\ h.read_version = b[20]
            /\ h.reserved_space = b[21]
            /\ h.max_embed_frac = b[22]
            /\ h.min_embed_frac = b[23]
            /\ h.min_leaf_frac = b[24]
            /\ h.change_counter = BE32(b, 24)
            /\ h.database_size = BE32(b, 28)
            /\ h.freelist_trunk_page = BE32(b, 32)
            /\ h.freelist_pages = BE32(b, 36)
            /\ h.schema_cookie = BE32(b, 40)
            /\ h.schema_format = BE32(b, 44)
            /\ h.vacuum_mode_largest_root_page = BE32(b, 52)
            /\ h.text_encoding = BE32(b, 56)
            /\ h.user_version = BE32(b, 60)
            /\ h.incremental_vacuum_enabled = BE32(b, 64)
            /\ h.application_id = BE32(b, 68)
            /\ h.reserved_for_expansion = SubSeq(b, 73, 92)
            /\ h.version_valid_for = BE32(b, 92)
            /\ h.version_number = BE32(b, 96)
            /\ SubSeq(b, 49, 52) = <<0, 0, 0, 0>> => h.default_page_cache_size = -2000
            /\ SubSeq(b, 49, 52) # <<0, 0, 0, 0>> =>
                 /\ h.default_page_cache_size = stored
                 /\ i32_to_be_bytes(h.default_page_cache_size) = SubSeq(b, 49, 52)
            /\ SubSeq(b, 49, 52) = <<255, 255, 248, 48>> => h.default_page_cache_size = -2000
            /\ SubSeq(b, 49, 52) = <<0, 0, 1, 244>> => h.default_page_cache_size = 500
            /\ SubSeq(b, 1, 20) = Magic \o <<16, 0, 1, 1>> =>
                 h.page_size = 4096 /\ h.write_version = 1 /\ h.read_version = 1

\* the page of a file with a stored cache size of 0 has been decoded
C17_Witness ==
    /\ harness = "header" /\ pc = "decoded"
    /\ SubSeq(header_buf, 1, 20) = Magic \o <<16, 0, 1, 1>>
    /\ SubSeq(header_buf, 49, 52) = <<0, 0, 0, 0>>
    /\ Len(header_buf) > DATABASE_HEADER_SIZE
    /\ header_read.st = "ok"
    /\ header_read.v.page_size = 4096
    /\ header_read.v.default_page_cache_size = -2000

----------------------------------------------------------------------------
(* Writing the header back: begin_write_database_header.  The file and the *)
(* I/O backend are the capability the layer requires: a read or a write is *)
(* submitted with its completion and is in flight until the completion     *)
(* fires, within the submitting call, within a run_once, or later.         *)

\* Buffer::allocate(512, drop_fn)
BufferSize == 512

\* the closure read_complete: the bytes read, the header over their first 100 bytes,
\* copied into buffer_to_copy
read_complete(buffer, h) == write_header_to_buf(buffer, h).v

ReadInFlight == \E i \in 1..Len(io) : io[i] = "read"
WriteInFlight == \E i \in 1..Len(io) : io[i] = "write"

Remove(q, i) == SubSeq(q, 1, i - 1) \o SubSeq(q, i + 1, Len(q))

\* the backend completes the request i in flight: a read fills buf from the file and
\* fires read_complete, a write stores the buffer it was given
Complete(i) ==
    /\ io' = Remove(io, i)
    /\ IF io[i] = "read"
         THEN /\ header_buf' = db_file
              /\ buffer_to_copy' = read_complete(db_file, header)
              /\ UNCHANGED db_file
         ELSE /\ db_file' = buffer_to_copy
              /\ UNCHANGED <<header_buf, buffer_to_copy>>

WrittenHeaders == {HeaderOf(k, c) : k \in {0, 3}, c \in {0, 500}}

InitWriteHeader ==
    /\ harness = "write_header"
    /\ pc = "begin"
    /\ header \in WrittenHeaders
    /\ db_file \in {d \in DiskPages : Len(d) = BufferSize}
    /\ io = <<>>
    /\ buffer_to_copy = Zeros(BufferSize)
    /\ header_buf = Zeros(BufferSize)
    /\ header_read = Failed("none")
    /\ CodecIdle /\ WalLayerIdle
    /\ OverflowIdle /\ PageIdle /\ WalIdle

writeHeaderRest == <<harness, header, header_read, codecVars, walLayerVars, overflowVars, pageVars, walVars>>

\* page_source.read_page(1, c): the read is submitted; a synchronous backend
\* completes it within the call
ReadPage ==
    /\ harness = "write_header"
    /\ pc = "begin"
    /\ \E now \in BOOLEAN :
         IF now
             THEN /\ header_buf' = db_file
                  /\ buffer_to_copy' = read_complete(db_file, header)
                  /\ UNCHANGED io
             ELSE /\ io' = Append(io, "read")
                  /\ UNCHANGED <<header_buf, buffer_to_copy>>
    /\ pc' = "read_issued"
    /\ UNCHANGED <<db_file, writeHeaderRest>>

\* pager.io.run_once(): the one pump; the completion of the read fires in it or not
RunOnce ==
    /\ harness = "write_header"
    /\ pc = "read_issued"
    /\ \/ /\ ReadInFlight
          /\ Complete(1)
       \/ UNCHANGED <<io, db_file, header_buf, buffer_to_copy>>
    /\ pc' = "pumped"
    /\ UNCHANGED writeHeaderRest

\* page_source.write_page(1, buffer_to_copy, c): the write is submitted; a
\* synchronous backend stores the buffer within the call
WritePage ==
    /\ harness = "write_header"
    /\ pc = "pumped"
    /\ \E now \in BOOLEAN :
         IF now
             THEN /\ db_file' = buffer_to_copy
                  /\ UNCHANGED io
             ELSE /\ io' = Append(io, "write")
                  /\ UNCHANGED db_file
    /\ pc' = "write_issued"
    /\ UNCHANGED <<header_buf, buffer_to_copy, writeHeaderRest>>

\* after begin_write_database_header has returned the caller pumps run_once and a
\* request in flight completes
Pump ==
    /\ harness = "write_header"
    /\ pc \in {"write_issued", "returned"}
    /\ \E i \in 1..Len(io) : Complete(i)
    /\ pc' = "returned"
    /\ UNCHANGED writeHeaderRest

NextWriteHeader == ReadPage \/ RunOnce \/ WritePage \/ Pump

SpecWriteHeader == InitWriteHeader /\ [][NextWriteHeader]_vars

\* the page with its first 100 bytes replaced by the encoded header
WithHeader(d, h) == write_header_to_buf(SubSeq(d, 1, DATABASE_HEADER_SIZE), h).v
                        \o SubSeq(d, DATABASE_HEADER_SIZE + 1, Len(d))

\* C18: begin_write_database_header issues the write of page 1 only after the read
\* of page 1 has completed, and the buffer it writes is the bytes read from the file
\* with only the first 100 bytes replaced by the encoded header, whatever the
\* backend's scheduling of the read completion relative to the one run_once: the
\* file holds its page as it was or that page under the new header, never anything else.
C18_WriteAfterRead ==
    harness = "write_header" =>
        /\ pc = "write_issued" =>
             /\ ~ReadInFlight
             /\ buffer_to_copy = WithHeader(header_buf, header)
        /\ Len(db_file) = BufferSize
        /\ \E k \in 1..MaxHeaderPattern :
             /\ \A i \in (DATABASE_HEADER_SIZE + 1)..BufferSize :
                    db_file[i] = FieldByte(k, i - DATABASE_HEADER_SIZE)
             /\ \/ \E cache \in DiskCaches :
                      \A i \in 1..DATABASE_HEADER_SIZE : db_file[i] = DiskHeader(k, cache)[i]
                \/ SubSeq(db_file, 1, DATABASE_HEADER_SIZE)
                       = write_header_to_buf(Zeros(DATABASE_HEADER_SIZE), header).v

\* when the completion of the read has fired by the time the write is issued, the
\* buffer written is the page read under the new header
C18_WriteWhenReadFired ==
    (harness = "write_header" /\ pc = "write_issued" /\ ~ReadInFlight) =>
        /\ header_buf \in DiskPages
        /\ buffer_to_copy = WithHeader(header_buf, header)
        /\ SubSeq(buffer_to_copy, DATABASE_HEADER_SIZE + 1, BufferSize)
               = SubSeq(header_buf, DATABASE_HEADER_SIZE + 1, BufferSize)
        /\ finish_read_database_header(buffer_to_copy).v
               = [header EXCEPT !.default_page_cache_size = cache_size_or_default(@)]

\* when it has not, the write is issued with the buffer as it was allocated
C18_WriteBeforeRead ==
    (harness = "write_header" /\ pc = "write_issued" /\ ReadInFlight) =>
        buffer_to_copy = Zeros(BufferSize)

----------------------------------------------------------------------------
(* WAL checksum: the run.                                                  *)

WalWords == {<<0, 0, 0, 0>>, <<1, 0, 0, 0>>, <<0, 0, 0, 1>>, <<0, 0, 0, 2>>, <<1, 2, 2, 1>>,
             <<255, 255, 255, 255>>, <<1, 2, 3, 4>>, <<128, 0, 0, 128>>, <<255, 0, 0, 0>>}

\* the words of the longer buffers
FewWalWords == {<<1, 0, 0, 0>>, <<0, 0, 0, 0>>, <<0, 0, 0, 2>>, <<0, 0, 0, 1>>}

\* the bytes of a sequence of words
Flat(ws) == [i \in 1..(4 * Len(ws)) |-> ws[((i - 1) \div 4) + 1][((i - 1) % 4) + 1]]

WalBuffers ==
    {Flat(<<a, b>>) : a \in WalWords, b \in WalWords}
        \cup UNION {{Flat(ws) : ws \in [1..(2 * n) -> FewWalWords]} : n \in 0..MaxWalPairs}
        \cup {<<1, 2, 3, 4>>, <<1, 2, 3, 4, 5, 6, 7, 8, 9, 10, 11, 12>>}

WalSeeds == {<<U32(0), U32(0)>>, <<U32(1), U32(2)>>,
             <<<<255, 255, 255, 255>>, <<254, 255, 255, 255>>>>}

InitWal ==
    /\ harness = "wal"
    /\ pc = "input"
    /\ wal_buf \in WalBuffers
    /\ input \in WalSeeds
    /\ native_endian \in BOOLEAN
    /\ target_endian \in {"little", "big"}
    /\ checksum = Failed("none")
    /\ CodecIdle /\ WalLayerIdle
    /\ OverflowIdle /\ PageIdle /\ HeaderIdle /\ WriteHeaderIdle

\* checksum_wal(buf, header, input, native_endian)
ChecksumWal ==
    /\ harness = "wal"
    /\ pc = "input"
    /\ checksum' = checksum_wal(wal_buf, input, native_endian, target_endian)
    /\ pc' = "done"
    /\ UNCHANGED <<harness, wal_buf, input, native_endian, target_endian, codecVars, walLayerVars, overflowVars,
                   pageVars, headerVars, writeHeaderVars>>

NextWal == ChecksumWal

SpecWal == InitWal /\ [][NextWal]_vars

\* a 32-bit number as its two 16-bit halves
Halves(hi, lo) == [hi |-> hi, lo |-> lo]
HalvesOf(x) == Halves(256 * x[4] + x[3], 256 * x[2] + x[1])

\* a + b modulo 2^32
Add32(a, b) == Halves((a.hi + b.hi + ((a.lo + b.lo) \div 65536)) % 65536, (a.lo + b.lo) % 65536)

\* the mode reads the four bytes of a word with the first byte the most significant
FirstByteHighest == (native_endian = (target_endian = "big"))

\* the k-th 32-bit word of the buffer, k from 0, in the mode of the state
WordOf(b, k) ==
    IF FirstByteHighest
        THEN Halves(256 * b[4 * k + 1] + b[4 * k + 2], 256 * b[4 * k + 3] + b[4 * k + 4])
        ELSE Halves(256 * b[4 * k + 4] + b[4 * k + 3], 256 * b[4 * k + 2] + b[4 * k + 1])

RECURSIVE Fold(_, _, _, _)
\* the left fold over the n word pairs of the buffer from the j-th on
Fold(b, s0, s1, j) ==
    IF 8 * j >= Len(b) THEN <<s0, s1>>
    ELSE LET t0 == Add32(s0, Add32(WordOf(b, 2 * j), s1))
             t1 == Add32(s1, Add32(WordOf(b, 2 * j + 1), t0))
         IN  Fold(b, t0, t1, j + 1)

WalDone == harness = "wal" /\ pc = "done" /\ Len(wal_buf) % 8 = 0

\* C19: checksum_wal over a buffer of 8n bytes is the left fold, from the input pair
\* (s0, s1) over the n consecutive 32-bit word pairs (a, b) in order, of the step
\* s0 := s0 + (a + s1), then s1 := s1 + (b + s0), all additions modulo 2^32.  An
\* empty buffer returns the input pair unchanged, and for A and B of lengths that
\* are multiples of 8, checksum(A followed by B, s) = checksum(B, checksum(A, s)) in
\* the same mode.
C19_ChecksumIsFold ==
    WalDone =>
        /\ checksum.st = "ok"
        /\ <<HalvesOf(checksum.v[1]), HalvesOf(checksum.v[2])>>
               = Fold(wal_buf, HalvesOf(input[1]), HalvesOf(input[2]), 0)
        /\ wal_buf = <<>> => checksum.v = input
        /\ \A j \in 0..(Len(wal_buf) \div 8) :
               checksum = checksum_wal(SubSeq(wal_buf, 8 * j + 1, Len(wal_buf)),
                                       checksum_wal(SubSeq(wal_buf, 1, 8 * j), input,
                                                    native_endian, target_endian).v,
                                       native_endian, target_endian)

\* two word pairs have been folded and the additions have wrapped
C19_Witness ==
    /\ WalDone
    /\ Len(wal_buf) = 16
    /\ SubSeq(wal_buf, 1, 8) # SubSeq(wal_buf, 9, 16)
    /\ input[1] = <<255, 255, 255, 255>>
    /\ checksum.st = "ok"
    /\ checksum.v # input

\* the four bytes of the k-th word, k from 0, read the same in both directions
Palindrome(b, k) == b[4 * k + 1] = b[4 * k + 4] /\ b[4 * k + 2] = b[4 * k + 3]
AllPalindromes(b) == \A k \in 0..((Len(b) \div 4) - 1) : Palindrome(b, k)

\* the checksum of the buffer of the state in the other mode
OtherMode == checksum_wal(wal_buf, input, ~native_endian, target_endian)

\* C20 as stated: for the same bytes and the same seed the native-endian checksum
\* and the byte-swapped checksum differ if and only if at least one 4-byte word of
\* the buffer is not a byte palindrome.
C20_S2DifferIff ==
    WalDone => ((checksum # OtherMode) <=> ~AllPalindromes(wal_buf))

\* C20: for the same bytes and the same seed, the native-endian checksum and the
\* byte-swapped checksum are equal when every 4-byte word of the buffer is a byte
\* palindrome, so that they differ only if some word is not; for a buffer of 8
\* bytes they differ if and only if one of its two words is not a palindrome.
C20_S2Amended ==
    WalDone =>
        /\ AllPalindromes(wal_buf) => checksum = OtherMode
        /\ Len(wal_buf) = 8 => ((checksum # OtherMode) <=> ~AllPalindromes(wal_buf))

\* the two modes have given different checksums of 8 bytes whose words are no palindromes
C20_Witness ==
    /\ WalDone
    /\ Len(wal_buf) = 8
    /\ ~Palindrome(wal_buf, 0) /\ ~Palindrome(wal_buf, 1)
    /\ checksum.st = "ok"
    /\ checksum # OtherMode

\* 16 bytes of which three words are no palindromes have the same checksum in both modes
C20_EqualDespiteWords ==
    (WalDone /\ wal_buf = <<1, 0, 0, 0, 0, 0, 0, 0, 0, 0, 0, 2, 0, 0, 0, 1>>) =>
        (checksum.st = "ok" /\ checksum = OtherMode)

----------------------------------------------------------------------------
(* The WAL writer: the run.  A page is its id, its contents and its flags; *)
(* a request in flight is the buffer handed to pwrite with its offset.     *)

MaxFrames == 2
MaxHeaderWrites == 1
MaxHeaderReads == 1
\* the calls of begin_read_page, begin_read_wal_frame, begin_write_btree_page,
\* begin_write_wal_frame and begin_sync a run of the pager makes
MaxSubmissions == 2

Page(id, contents, dirty, uptodate, locked, loaded) ==
    [id |-> id, contents |-> contents, dirty |-> dirty, uptodate |-> uptodate,
     locked |-> locked, loaded |-> loaded, error |-> FALSE]

\* a page of the cache that has been read and changed
DirtyPage(id, bytes) ==
    Page(id, Some(PageContent(IF id = 1 THEN DATABASE_HEADER_SIZE ELSE 0, bytes)),
         TRUE, TRUE, FALSE, TRUE)

\* a page that has not been read
NewPage(id, locked) == Page(id, None, FALSE, FALSE, locked, FALSE)

\* page.clear_dirty()
clear_dirty(p) == [p EXCEPT !.dirty = FALSE]

ValidPageSizes == {512, 1024, 2048, 4096, 8192, 16384, 32768, 65536}

\* page contents of n bytes: the pages 2 and 3 differ in their last eight bytes only
PagePattern(n, k) ==
    IF k = 1 THEN <<1, 2, 3, 4, 5, 6, 7, 8>> \o Zeros(n - 8)
    ELSE IF k = 2 THEN <<9, 8, 7, 6, 5, 4, 3, 2>> \o Zeros(n - 16) \o <<1, 2, 3, 4, 5, 6, 7, 8>>
    ELSE <<9, 8, 7, 6, 5, 4, 3, 2>> \o Zeros(n - 8)

PageIdOf(k) == IF k = 1 THEN 1 ELSE 256 + k

\* a u32 as a number
U32Value(x) == x[1] + 256 * x[2] + 65536 * x[3] + 16777216 * x[4]

\* the pair the writer starts from and the first salt of the header, drawn together
FrameSeeds == <<<<U32(0), U32(0)>>, <<<<255, 255, 255, 255>>, <<254, 255, 255, 255>>>>>>
Salts == <<<<1, 2, 3, 4>>, U32(0)>>

WalHeaders(sizes, v) ==
    {WalHeader(magic, U32(3007000), U32(n), <<9, 0, 0, 1>>, Salts[v], <<5, 6, 7, 8>>,
               <<10, 11, 12, 13>>, <<14, 15, 16, 17>>) :
        magic \in {WAL_MAGIC_LE, WAL_MAGIC_BE}, n \in sizes}

\* what a run draws: the db_size of a frame, whether the I/O layer takes a request, and
\* whether it completes a write in full
DbSizes == IF harness = "frame" THEN {U32(0), U32(7)} ELSE {U32(7)}
Accepts == IF harness = "log" THEN {TRUE} ELSE BOOLEAN
Fulls == IF harness = "log" THEN {TRUE} ELSE BOOLEAN

\* the frames submitted and accepted
Accepted(fs) == SelectSeq(fs, LAMBDA f : f.returned.st = "ok")

\* the calls of begin_write_wal_frame a run makes
FrameBudget ==
    IF harness = "log" THEN MaxFrames
    ELSE IF harness = "pager" THEN Min(1, MaxSubmissions - Len(submitted))
    ELSE 1

\* the offset the writer gives its next frame
NextFrameOffset ==
    WAL_HEADER_SIZE
        + Len(Accepted(frames)) * (WAL_FRAME_HEADER_SIZE + U32Value(wal_header.page_size))

\* File::pwrite as the backend completes it: the bytes stored at the offset, the file
\* grown to hold them
pwrite(file, offset, bytes) ==
    LET before == IF Len(file) >= offset THEN SubSeq(file, 1, offset)
                  ELSE file \o Zeros(offset - Len(file))
        after == IF Len(file) > offset + Len(bytes)
                     THEN SubSeq(file, offset + Len(bytes) + 1, Len(file)) ELSE <<>>
    IN  IF Len(bytes) = 0 THEN file ELSE before \o bytes \o after

WalRequest(kind, offset, buffer, p) ==
    [kind |-> kind, offset |-> offset, buffer |-> buffer, page |-> p]

Completed(kind, p, offset, bytes_written, buf_len) ==
    [kind |-> kind, page |-> p, offset |-> offset, bytes_written |-> bytes_written,
     buf_len |-> buf_len]

WalStatic == <<harness, target_endian, wal_buf, input, native_endian, checksum, wal_header,
               wal_header_read, syncing, pager_io, submitted, dumpVars, codecVars, overflowVars, pageVars,
               headerVars, writeHeaderVars>>

\* begin_write_wal_frame(io, offset, page, db_size, write_counter, wal_header, checksums):
\* the I/O layer takes the request or returns an error
BeginWriteWalFrame ==
    /\ harness \in {"frame", "log", "pager"}
    /\ pc = "run"
    /\ Len(frames) < FrameBudget
    /\ \E p \in 1..Len(pages), size \in DbSizes :
           /\ frame' = begin_write_wal_frame(pages[p], size, wal_header, cumulative, target_endian)
           /\ IF frame'.st # "ok"
                 THEN /\ pc' = "aborted"
                      /\ UNCHANGED <<write_counter, wal_io, cumulative, frames>>
                 ELSE /\ write_counter' = write_counter + 1
                      /\ pc' = pc
                      /\ \E accepted \in Accepts :
                             /\ frames' = Append(frames,
                                    [page |-> p, db_size |-> size, seed |-> cumulative,
                                     offset |-> NextFrameOffset,
                                     returned |-> IF accepted THEN Done(frame'.v)
                                                  ELSE Failed("err")])
                             /\ IF accepted
                                   THEN /\ wal_io' = Append(wal_io,
                                               WalRequest("frame", NextFrameOffset,
                                                          frame'.buffer, p))
                                        /\ cumulative' = frame'.v
                                   ELSE UNCHANGED <<wal_io, cumulative>>
    /\ UNCHANGED <<pages, wal_file, completed, WalStatic>>

\* the header writes submitted
HeaderWrites ==
    Len(SelectSeq(wal_io, LAMBDA r : r.kind = "header"))
        + Len(SelectSeq(completed, LAMBDA c : c.kind = "header"))

\* begin_write_wal_header(io, header)
BeginWriteWalHeader ==
    /\ harness \in {"log", "wal_header"}
    /\ pc = "run"
    /\ HeaderWrites < MaxHeaderWrites
    /\ wal_io' = Append(wal_io, WalRequest("header", 0, wal_header_buffer(wal_header), 0))
    /\ UNCHANGED <<pc, pages, write_counter, wal_file, frames, cumulative, frame, completed,
                   WalStatic>>

\* the backend completes a pwrite in flight, in full or short, and fires write_complete
WalWriteComplete ==
    /\ harness \in {"frame", "log", "wal_header", "pager"}
    /\ \E i \in 1..Len(wal_io), full \in Fulls :
           LET r == wal_io[i]
               bytes_written == IF full THEN Len(r.buffer) ELSE Len(r.buffer) - WAL_FRAME_HEADER_SIZE
           IN  /\ r.kind \in {"frame", "header"}
               /\ wal_io' = Remove(wal_io, i)
               /\ wal_file' = pwrite(wal_file, r.offset, SubSeq(r.buffer, 1, bytes_written))
               /\ completed' = Append(completed,
                                      Completed(r.kind, r.page, r.offset, bytes_written,
                                                Len(r.buffer)))
               /\ IF r.kind = "frame"
                     THEN /\ write_counter' = write_counter - 1
                          /\ pages' = [pages EXCEPT ![r.page] = clear_dirty(@)]
                     ELSE UNCHANGED <<write_counter, pages>>
    /\ UNCHANGED <<pc, frames, cumulative, frame, WalStatic>>

\* the header reads submitted
HeaderReads ==
    Len(SelectSeq(wal_io, LAMBDA r : r.kind = "read_header"))
        + Len(SelectSeq(completed, LAMBDA c : c.kind = "read_header"))

\* begin_read_wal_header(io): the header it returns is the default one until the
\* completion fills it
BeginReadWalHeader ==
    /\ harness = "wal_header"
    /\ pc = "run"
    /\ HeaderReads < MaxHeaderReads
    /\ \E accepted \in Accepts :
           IF accepted
               THEN /\ wal_io' = Append(wal_io, WalRequest("read_header", 0,
                                                           Zeros(WalHeaderBufferSize), 0))
                    /\ wal_header_read' = Done(NoWalHeader)
               ELSE /\ wal_header_read' = Failed("err")
                    /\ UNCHANGED wal_io
    /\ UNCHANGED <<pc, harness, pages, write_counter, wal_file, frames, cumulative, frame,
                   completed, target_endian, wal_buf, input, native_endian, checksum, wal_header,
                   syncing, pager_io, submitted, dumpVars, codecVars, overflowVars, pageVars, headerVars,
                   writeHeaderVars>>

\* File::pread as the backend completes it: the bytes of the file from the offset on, as
\* many as the file has, over the start of the buffer
pread(file, offset, buffer) ==
    LET n == Min(Len(buffer), IF Len(file) > offset THEN Len(file) - offset ELSE 0)
    IN  SubSeq(file, offset + 1, offset + n) \o SubSeq(buffer, n + 1, Len(buffer))

\* the backend completes the pread of begin_read_wal_header and fires its closure:
\* finish_read_wal_header(buf, header).unwrap()
WalHeaderReadComplete ==
    /\ harness = "wal_header"
    /\ \E i \in 1..Len(wal_io) :
           LET r == wal_io[i]
               buffer == pread(wal_file, r.offset, r.buffer)
           IN  /\ r.kind = "read_header"
               /\ wal_io' = Remove(wal_io, i)
               /\ wal_header_read' = finish_read_wal_header(buffer)
               /\ completed' = Append(completed,
                                      Completed(r.kind, r.page, r.offset, Len(buffer),
                                                Len(r.buffer)))
    /\ UNCHANGED <<pc, harness, pages, write_counter, wal_file, frames, cumulative, frame,
                   target_endian, wal_buf, input, native_endian, checksum, wal_header,
                   syncing, pager_io, submitted, dumpVars, codecVars, overflowVars, pageVars, headerVars,
                   writeHeaderVars>>

InitFrame ==
    /\ harness = "frame"
    /\ pc = "run"
    /\ \E n \in ValidPageSizes, k \in 1..3 :
           /\ pages = <<DirtyPage(PageIdOf(k), PagePattern(n, k))>>
           /\ \E v \in 1..2 :
                  /\ wal_header \in WalHeaders({n}, v)
                  /\ cumulative = FrameSeeds[v]
    /\ target_endian \in {"little", "big"}
    /\ frame = Failed("none")
    /\ wal_file = <<>> /\ wal_io = <<>> /\ frames = <<>> /\ wal_header_read = Failed("none")
    /\ write_counter = 0 /\ syncing = FALSE /\ pager_io = <<>> /\ completed = <<>>
    /\ submitted = <<>>
    /\ wal_buf = <<>> /\ input = <<>> /\ native_endian = FALSE /\ checksum = Failed("none")
    /\ DumpIdle /\ CodecIdle
    /\ OverflowIdle /\ PageIdle /\ HeaderIdle /\ WriteHeaderIdle

NextFrame == BeginWriteWalFrame \/ WalWriteComplete

SpecFrame == InitFrame /\ [][NextFrame]_vars

WalRunIdle ==
    /\ frame = Failed("none")
    /\ wal_io = <<>> /\ frames = <<>> /\ wal_header_read = Failed("none")
    /\ write_counter = 0 /\ syncing = FALSE /\ pager_io = <<>> /\ completed = <<>>
    /\ submitted = <<>>
    /\ wal_buf = <<>> /\ input = <<>> /\ native_endian = FALSE /\ checksum = Failed("none")
    /\ DumpIdle /\ CodecIdle
    /\ OverflowIdle /\ PageIdle /\ HeaderIdle /\ WriteHeaderIdle

LogPageSizes == {512, 4096, 8192}

\* a writer with two dirty pages and an empty log
InitLog ==
    /\ harness = "log"
    /\ pc = "run"
    /\ \E n \in LogPageSizes :
           /\ pages = <<DirtyPage(PageIdOf(1), PagePattern(n, 1)),
                        DirtyPage(PageIdOf(2), PagePattern(n, 2))>>
           /\ \E v \in 1..2 :
                  /\ wal_header \in WalHeaders({n}, v)
                  /\ cumulative = FrameSeeds[v]
                  /\ target_endian = IF v = 1 THEN "little" ELSE "big"
    /\ wal_file = <<>>
    /\ WalRunIdle

NextLog == BeginWriteWalHeader \/ BeginWriteWalFrame \/ WalWriteComplete

SpecLog == InitLog /\ [][NextLog]_vars

\* a log of before: a header and the first bytes of a frame
OldLog == wal_header_fields(WalHeader(WAL_MAGIC_BE, U32(3007000), U32(1024), U32(3), U32(77),
                                      U32(78), U32(79), U32(80)))
              \o <<1, 2, 3, 4, 5, 6, 7, 8>>

CheckpointSeqs == {U32(0), <<4, 3, 2, 1>>}

InitWalHeader ==
    /\ harness = "wal_header"
    /\ pc = "run"
    /\ pages = <<>>
    /\ \E v \in 1..2, seq \in CheckpointSeqs :
           \E h \in WalHeaders(ValidPageSizes, v) : wal_header = [h EXCEPT !.checkpoint_seq = seq]
    /\ cumulative = <<>>
    /\ target_endian = "little"
    /\ wal_file \in {<<>>, OldLog}
    /\ WalRunIdle

NextWalHeader ==
    BeginWriteWalHeader \/ BeginReadWalHeader \/ WalWriteComplete \/ WalHeaderReadComplete

SpecWalHeader == InitWalHeader /\ [][NextWalHeader]_vars

\* the k-th 32-bit word of the bytes, k from 0, its first byte the most significant or
\* its last
WordRead(b, k, first_highest) ==
    IF first_highest
        THEN Halves(256 * b[4 * k + 1] + b[4 * k + 2], 256 * b[4 * k + 3] + b[4 * k + 4])
        ELSE Halves(256 * b[4 * k + 4] + b[4 * k + 3], 256 * b[4 * k + 2] + b[4 * k + 1])

\* the step of the checksum over the j-th word pair
PairStep(b, s, j, first_highest) ==
    LET t0 == Add32(s[1], Add32(WordRead(b, 2 * j, first_highest), s[2]))
    IN  <<t0, Add32(s[2], Add32(WordRead(b, 2 * j + 1, first_highest), t0))>>

RECURSIVE SumPairs(_, _, _, _, _)
\* the steps over the word pairs lo..hi - 1 in their order, from the pair s
SumPairs(b, s, lo, hi, first_highest) ==
    IF lo >= hi THEN s
    ELSE IF hi = lo + 1 THEN PairStep(b, s, lo, first_highest)
    ELSE LET mid == (lo + hi) \div 2
             left == SumPairs(b, s, lo, mid, first_highest)
         IN  IF Len(left) = 2 THEN SumPairs(b, left, mid, hi, first_highest) ELSE left

\* the checksum of the bytes from the seed, a pair of u32
ChecksumOf(b, seed, first_highest) ==
    SumPairs(b, <<HalvesOf(seed[1]), HalvesOf(seed[2])>>, 0, Len(b) \div 8, first_highest)

PairOf(c) == <<HalvesOf(c[1]), HalvesOf(c[2])>>

\* the last call of begin_write_wal_frame, its page and the buffer it built
LastCall == frames[Len(frames)]
LastPage == pages[LastCall.page]
LastPageBytes == LastPage.contents.v.buffer

\* a frame has been built and handed to the I/O layer, which has it in flight
FrameInFlight ==
    /\ harness = "frame" /\ frame.st = "ok" /\ Len(frames) = 1 /\ Len(wal_io) = 1

HostBig == target_endian = "big"
MagicBit == wal_header.magic[1] % 2
OtherMagic == IF wal_header.magic = WAL_MAGIC_LE THEN WAL_MAGIC_BE ELSE WAL_MAGIC_LE

\* the bytes begin_write_wal_frame sums: the first eight of the frame header, then the
\* slice of the page
SummedBytes == SubSeq(frame.buffer, 1, 8) \o SubSeq(LastPageBytes, 1, ChecksummedLen)

\* the checksum of the frame with the words in the order of the host, or swapped
InHostOrder(host_order) ==
    ChecksumOf(SummedBytes, LastCall.seed, IF host_order THEN HostBig ELSE ~HostBig)

MostSignificantFirst(x) == <<x[4], x[3], x[2], x[1]>>

\* the words of the WAL are read with their first byte the most significant when the low
\* bit of the magic is 1
FirstHighest == MagicBit = 1

\* the checksum of the whole page, from the checksum of the first eight bytes of the frame
\* header, from the pair passed in
ChecksumOfPage(b, bytes, seed) ==
    LET hdr_checksum == ChecksumOf(SubSeq(b, 1, 8), seed, FirstHighest)
    IN  SumPairs(bytes, hdr_checksum, 0, Len(bytes) \div 8, FirstHighest)

\* the frame in flight has the layout of a WAL frame, over all the bytes of its page
FrameLayout(b, call, bytes) ==
    /\ Len(b) = WAL_FRAME_HEADER_SIZE + Len(bytes)
    /\ SubSeq(b, 1, 4) = MostSignificantFirst(U32(pages[call.page].id))
    /\ SubSeq(b, 5, 8) = MostSignificantFirst(call.db_size)
    /\ SubSeq(b, 9, 12) = MostSignificantFirst(wal_header.salt_1)
    /\ SubSeq(b, 13, 16) = MostSignificantFirst(wal_header.salt_2)
    /\ SubSeq(b, 17, 24) = MostSignificantFirst(frame.v[1]) \o MostSignificantFirst(frame.v[2])
    /\ SubSeq(b, WAL_FRAME_HEADER_SIZE + 1, Len(b)) = bytes
    /\ call.returned = Done(frame.v)

\* C22: begin_write_wal_frame builds a frame whose 24-byte header holds, big-endian, the
\* page number, db_size, and salt_1 and salt_2 copied from the WAL header, and whose bytes
\* 16..24 hold final = checksum(page bytes, seed = checksum(header bytes 0..8, seed = the
\* pair passed in)); the data part of the frame equals the page bytes; the function
\* returns exactly final.
C22_FrameOfPage ==
    FrameInFlight =>
        /\ FrameLayout(wal_io[1].buffer, LastCall, LastPageBytes)
        /\ PairOf(frame.v) = ChecksumOfPage(wal_io[1].buffer, LastPageBytes, LastCall.seed)

\* what holds of the code: the layout, with final the checksum of the first 4096 bytes of
\* the page
C22_FrameOfPrefix ==
    FrameInFlight =>
        /\ FrameLayout(wal_io[1].buffer, LastCall, LastPageBytes)
        /\ PairOf(frame.v) = ChecksumOfPage(wal_io[1].buffer,
                                            SubSeq(LastPageBytes, 1, ChecksummedLen), LastCall.seed)

\* C24: for every valid page size (the powers of two from 512 to 65536),
\* begin_write_wal_frame completes without aborting and emits a frame of exactly
\* 24 + page_size bytes whose checksum covers all page_size bytes of the page, neither a
\* fixed-length prefix of it nor a zero-padded extension of it.
C24_EveryPageSize ==
    harness = "frame" =>
        /\ Len(pages[1].contents.v.buffer) \in ValidPageSizes
        /\ pc # "aborted"
        /\ FrameInFlight =>
               /\ Len(wal_io[1].buffer) = WAL_FRAME_HEADER_SIZE + U32Value(wal_header.page_size)
               /\ PairOf(frame.v)
                      = ChecksumOfPage(wal_io[1].buffer, LastPageBytes, LastCall.seed)

\* what holds of the code: the call aborts on every page shorter than 4096 bytes, and on
\* no other
C24_AbortsBelow4096 ==
    (harness = "frame" /\ (pc = "aborted" \/ frames # <<>>)) =>
        (pc = "aborted") = (Len(pages[1].contents.v.buffer) < ChecksummedLen)

\* the first eight bytes of the header of the frame of a call
FrameHeader8(call) ==
    MostSignificantFirst(U32(pages[call.page].id)) \o MostSignificantFirst(call.db_size)

RECURSIVE Concatenation(_, _)
\* over the frames 1..k, the first eight header bytes of each followed by the first n
\* bytes of its page
Concatenation(k, n) ==
    IF k = 0 THEN <<>>
    ELSE Concatenation(k - 1, n) \o FrameHeader8(frames[k])
             \o SubSeq(pages[frames[k].page].contents.v.buffer, 1, n)

\* the bytes 16..24 of the frame of the k-th call: in the buffer in flight, or in the file
StoredChecksum(k) ==
    IF \E i \in 1..Len(wal_io) : wal_io[i].kind = "frame" /\ wal_io[i].offset = frames[k].offset
        THEN LET i == CHOOSE i \in 1..Len(wal_io) :
                          wal_io[i].kind = "frame" /\ wal_io[i].offset = frames[k].offset
             IN  SubSeq(wal_io[i].buffer, 17, 24)
        ELSE SubSeq(wal_file, frames[k].offset + 17, frames[k].offset + 24)

\* a header write has completed after the write of the first frame
HeaderAfterFrame ==
    \E i, j \in 1..Len(completed) :
        /\ i < j
        /\ completed[i].kind = "frame" /\ completed[i].offset = WAL_HEADER_SIZE
        /\ completed[j].kind = "header"

\* the two halves of the pair stored in eight bytes, the most significant byte first
PairStored(bs) ==
    <<Halves(256 * bs[1] + bs[2], 256 * bs[3] + bs[4]),
      Halves(256 * bs[5] + bs[6], 256 * bs[7] + bs[8])>>

\* each call is given the pair the call before returned
Chained ==
    \A k \in 2..Len(frames) : frames[k].seed = frames[k - 1].returned.v

\* the frames of the run carry the checksums of the concatenation of their first n page
\* bytes each
ChecksumsChain(n) ==
    \A k \in 1..Len(frames) :
        PairStored(StoredChecksum(k))
            = ChecksumOf(Concatenation(k, n), frames[1].seed, FirstHighest)

\* C23: for the frames written by one writer, each call given the pair returned by the
\* call before, the checksum stored in frame k equals the checksum, from the initial seed,
\* of the concatenation over the frames 1..k of the first 8 header bytes of the frame
\* followed by its page data; the order in which the writes complete does not change the
\* checksums stored.
C23_CumulativeChecksum ==
    (harness = "log" /\ ~HeaderAfterFrame) =>
        /\ Chained
        /\ ChecksumsChain(U32Value(wal_header.page_size))

\* what holds of the code: the chain runs over the first 4096 bytes of each page
C23_ChainOfPrefixes ==
    (harness = "log" /\ ~HeaderAfterFrame) =>
        /\ Chained
        /\ ChecksumsChain(ChecksummedLen)

\* two frames of 4096-byte pages, the second written to the file before the first
C23_SecondCompletesFirst ==
    /\ harness = "log" /\ Len(frames) = 2 /\ Len(wal_io) = 1 /\ wal_io[1].offset = WAL_HEADER_SIZE
    /\ Len(completed) = 1 /\ completed[1].kind = "frame"
    /\ U32Value(wal_header.page_size) = ChecksummedLen

\* the log is at rest: a header write and every frame write have completed
LogAtRest ==
    /\ harness = "log" /\ wal_io = <<>>
    /\ \E j \in 1..Len(completed) : completed[j].kind = "header"

\* the frame of the k-th call has been written to the file
FrameWritten(k) ==
    \A i \in 1..Len(wal_io) : ~(wal_io[i].kind = "frame" /\ wal_io[i].offset = frames[k].offset)

FrameSize == WAL_FRAME_HEADER_SIZE + U32Value(wal_header.page_size)

\* C25: after the WAL header and n frames have been written, frame k at offset
\* 32 + k * (24 + page_size), the log is exactly 32 + (24 + page_size) * n bytes long, 32
\* when n = 0; writing the WAL header writes exactly 32 bytes at offset 0 and changes no
\* byte at offset 32 or beyond.
C25_LogLength ==
    harness = "log" =>
        /\ \A k \in 1..Len(frames) : frames[k].offset = WAL_HEADER_SIZE + (k - 1) * FrameSize
        /\ LogAtRest => Len(wal_file) = WAL_HEADER_SIZE + FrameSize * Len(frames)
        /\ \A i \in 1..Len(wal_io) :
               wal_io[i].kind = "header" =>
                   (wal_io[i].offset = 0 /\ Len(wal_io[i].buffer) = WAL_HEADER_SIZE)
        /\ \A k \in 1..Len(frames) :
               FrameWritten(k) =>
                   /\ SubSeq(wal_file, frames[k].offset + 1, frames[k].offset + 8)
                          = FrameHeader8(frames[k])
                   /\ SubSeq(wal_file, frames[k].offset + WAL_FRAME_HEADER_SIZE + 1,
                             frames[k].offset + FrameSize)
                          = pages[frames[k].page].contents.v.buffer

\* what holds of the code: the header write hands 512 bytes to pwrite, the fields and 480
\* zero bytes; a log of a header alone is 512 bytes long, and the header and the first
\* 480 bytes of the first frame are zero once a header write completes after the frame's
C25_HeaderWriteIs512 ==
    harness = "log" =>
        /\ \A i \in 1..Len(wal_io) :
               wal_io[i].kind = "header" =>
                   /\ wal_io[i].offset = 0
                   /\ wal_io[i].buffer
                          = wal_header_fields(wal_header)
                                \o Zeros(WalHeaderBufferSize - WAL_HEADER_SIZE)
        /\ (LogAtRest /\ frames = <<>>) => Len(wal_file) = WalHeaderBufferSize
        /\ (LogAtRest /\ frames # <<>>) =>
               /\ Len(wal_file) = WAL_HEADER_SIZE + FrameSize * Len(frames)
               /\ HeaderAfterFrame =>
                      SubSeq(wal_file, WAL_HEADER_SIZE + 1, WalHeaderBufferSize)
                          = Zeros(WalHeaderBufferSize - WAL_HEADER_SIZE)
               /\ ~HeaderAfterFrame =>
                      SubSeq(wal_file, WAL_HEADER_SIZE + 1, WAL_HEADER_SIZE + 8)
                          = FrameHeader8(frames[1])

\* the bytes hold the eight fields of the header, each most significant byte first, in
\* the order of the format
HoldsHeader(b, h) ==
    /\ SubSeq(b, 1, 4) = MostSignificantFirst(h.magic)
    /\ SubSeq(b, 5, 8) = MostSignificantFirst(h.file_format)
    /\ SubSeq(b, 9, 12) = MostSignificantFirst(h.page_size)
    /\ SubSeq(b, 13, 16) = MostSignificantFirst(h.checkpoint_seq)
    /\ SubSeq(b, 17, 20) = MostSignificantFirst(h.salt_1)
    /\ SubSeq(b, 21, 24) = MostSignificantFirst(h.salt_2)
    /\ SubSeq(b, 25, 28) = MostSignificantFirst(h.checksum_1)
    /\ SubSeq(b, 29, 32) = MostSignificantFirst(h.checksum_2)

\* the header has been written to the file and, after that, read back
ReadAfterWrite ==
    /\ harness = "wal_header"
    /\ \E i, j \in 1..Len(completed) :
           i < j /\ completed[i].kind = "header" /\ completed[j].kind = "read_header"

\* the step completes a read of the header submitted to a file whose header write had
\* completed
ReadCompletesAfterWrite ==
    /\ harness = "wal_header"
    /\ Len(completed') = Len(completed) + 1
    /\ completed'[Len(completed')].kind = "read_header"
    /\ \E j \in 1..Len(completed) : completed[j].kind = "header"

\* C26: a WAL header survives the round trip: finish_read_wal_header over the bytes
\* begin_write_wal_header wrote yields the header written, also when the completion of
\* the read runs it over the file; the eight fields are stored big-endian in the order
\* magic, file_format, page_size, checkpoint_seq, salt_1, salt_2, checksum_1, checksum_2.
C26_WalHeaderRoundTrip ==
    /\ [](harness = "wal_header" =>
             /\ finish_read_wal_header(wal_header_buffer(wal_header)) = Done(wal_header)
             /\ \A i \in 1..Len(wal_io) :
                    wal_io[i].kind = "header" => HoldsHeader(wal_io[i].buffer, wal_header)
             /\ (\E j \in 1..Len(completed) : completed[j].kind = "header") =>
                    HoldsHeader(wal_file, wal_header))
    /\ [][ReadCompletesAfterWrite => wal_header_read' = Done(wal_header)]_vars

\* a header with eight different fields written over an older log and read back
C26_Witness ==
    /\ ReadAfterWrite
    /\ wal_header.checkpoint_seq = <<4, 3, 2, 1>> /\ wal_header.salt_1 = <<1, 2, 3, 4>>
    /\ wal_header.magic = WAL_MAGIC_BE
    /\ wal_header_read = Done(wal_header)
    /\ wal_io = <<>>

----------------------------------------------------------------------------
(* The pager's page I/O: the run.  Two pages, the requests of the database *)
(* file in pager_io and those of the WAL file in wal_io.                   *)

\* page.set_uptodate(); page.clear_locked(); page.set_loaded()
set_uptodate(p) == [p EXCEPT !.uptodate = TRUE]
clear_locked(p) == [p EXCEPT !.locked = FALSE]
set_loaded(p) == [p EXCEPT !.loaded = TRUE]

\* the page with contents at offset 0 whatever its number
finish_read_page_at_zero(page_idx, buffer_ref, p) ==
    set_loaded(clear_locked(set_uptodate([p EXCEPT !.contents = Some(PageContent(0, buffer_ref))])))

\* finish_read_page(page_idx, buffer_ref, page)
finish_read_page(page_idx, buffer_ref, p) ==
    LET pos == IF page_idx = 1 THEN DATABASE_HEADER_SIZE ELSE 0
        inner == PageContent(pos, buffer_ref)
    IN  set_loaded(clear_locked(set_uptodate([p EXCEPT !.contents = Some(inner)])))

\* the bytes the database file has of a page, and those a frame of the WAL has
DiskBytes == PagePattern(ChecksummedLen, 3)
WalFrameBytes == <<7, 7, 7, 7, 7, 7, 7, 7>> \o Zeros(ChecksummedLen - 8)

PagerRequest(kind, p, page_idx, buffer) ==
    [kind |-> kind, page |-> p, page_idx |-> page_idx, buffer |-> buffer]

Submitted(kind, p, accepted) == [kind |-> kind, page |-> p, accepted |-> accepted]

\* the run has calls left
CanSubmit == harness = "pager" /\ pc = "run" /\ Len(submitted) + Len(frames) < MaxSubmissions

pagerRest == <<harness, target_endian, wal_buf, input, native_endian, checksum, wal_header,
               wal_header_read, wal_file, frames, cumulative, frame, dumpVars, codecVars,
               overflowVars, pageVars, headerVars, writeHeaderVars>>

\* begin_read_page(db_file, buffer_pool, page, page_idx)
BeginReadPage ==
    /\ CanSubmit
    /\ \E p \in 1..Len(pages), accepted \in BOOLEAN :
           /\ submitted' = Append(submitted, Submitted("read", p, accepted))
           /\ pager_io' = IF accepted
                              THEN Append(pager_io, PagerRequest("read", p, pages[p].id, DiskBytes))
                              ELSE pager_io
    /\ UNCHANGED <<pc, pages, write_counter, syncing, wal_io, completed, pagerRest>>

\* the backend completes a read of the database file and fires the closure of
\* begin_read_page: finish_read_page, and set_error if it fails
ReadPageComplete ==
    /\ harness = "pager"
    /\ \E i \in 1..Len(pager_io) :
           LET r == pager_io[i]
           IN  /\ r.kind = "read"
               /\ pager_io' = Remove(pager_io, i)
               /\ pages' = [pages EXCEPT ![r.page] = finish_read_page(r.page_idx, r.buffer, @)]
               /\ completed' = Append(completed,
                                      Completed("read", r.page, 0, Len(r.buffer), Len(r.buffer)))
    /\ UNCHANGED <<pc, write_counter, syncing, wal_io, submitted, pagerRest>>

\* begin_read_wal_frame(io, offset, buffer_pool, page)
BeginReadWalFrame ==
    /\ CanSubmit
    /\ \E p \in 1..Len(pages), accepted \in BOOLEAN :
           /\ submitted' = Append(submitted, Submitted("read_frame", p, accepted))
           /\ wal_io' = IF accepted
                            THEN Append(wal_io, WalRequest("read_frame",
                                                           WAL_HEADER_SIZE + WAL_FRAME_HEADER_SIZE,
                                                           WalFrameBytes, p))
                            ELSE wal_io
    /\ UNCHANGED <<pc, pages, write_counter, syncing, pager_io, completed, pagerRest>>

\* the backend completes a read of the WAL file and fires the closure of
\* begin_read_wal_frame: finish_read_page(page.get().id, buf, frame).unwrap()
ReadWalFrameComplete ==
    /\ harness = "pager"
    /\ \E i \in 1..Len(wal_io) :
           LET r == wal_io[i]
           IN  /\ r.kind = "read_frame"
               /\ wal_io' = Remove(wal_io, i)
               /\ pages' = [pages EXCEPT ![r.page] = finish_read_page(@.id, r.buffer, @)]
               /\ completed' = Append(completed,
                                      Completed("read_frame", r.page, r.offset, Len(r.buffer),
                                                Len(r.buffer)))
    /\ UNCHANGED <<pc, write_counter, syncing, pager_io, submitted, pagerRest>>

\* begin_write_btree_page(pager, page, write_counter)
BeginWriteBtreePage ==
    /\ CanSubmit
    /\ \E p \in 1..Len(pages), accepted \in BOOLEAN :
           IF ~pages[p].contents.some
               THEN /\ pc' = "aborted"
                    /\ UNCHANGED <<submitted, write_counter, pager_io>>
               ELSE /\ write_counter' = write_counter + 1
                    /\ submitted' = Append(submitted, Submitted("write", p, accepted))
                    /\ pager_io' = IF accepted
                                       THEN Append(pager_io,
                                                   PagerRequest("write", p, pages[p].id,
                                                                pages[p].contents.v.buffer))
                                       ELSE pager_io
                    /\ pc' = pc
    /\ UNCHANGED <<pages, syncing, wal_io, completed, pagerRest>>

\* the backend completes a write of the database file, in full or short, and fires
\* write_complete
WritePageComplete ==
    /\ harness = "pager"
    /\ \E i \in 1..Len(pager_io), full \in BOOLEAN :
           LET r == pager_io[i]
               bytes_written == IF full THEN Len(r.buffer) ELSE Len(r.buffer) - 1
           IN  /\ r.kind = "write"
               /\ pager_io' = Remove(pager_io, i)
               /\ write_counter' = write_counter - 1
               /\ pages' = [pages EXCEPT ![r.page] = clear_dirty(@)]
               /\ completed' = Append(completed,
                                      Completed("write", r.page, 0, bytes_written, Len(r.buffer)))
    /\ UNCHANGED <<pc, syncing, wal_io, submitted, pagerRest>>

\* begin_sync(db_file, syncing)
BeginSync ==
    /\ CanSubmit
    /\ \E accepted \in BOOLEAN :
           IF syncing
               THEN /\ pc' = "aborted"
                    /\ UNCHANGED <<syncing, submitted, pager_io>>
               ELSE /\ syncing' = TRUE
                    /\ submitted' = Append(submitted, Submitted("sync", 0, accepted))
                    /\ pager_io' = IF accepted
                                       THEN Append(pager_io, PagerRequest("sync", 0, 0, <<>>))
                                       ELSE pager_io
                    /\ pc' = pc
    /\ UNCHANGED <<pages, write_counter, wal_io, completed, pagerRest>>

\* the backend completes a sync and fires its completion
SyncComplete ==
    /\ harness = "pager"
    /\ \E i \in 1..Len(pager_io) :
           /\ pager_io[i].kind = "sync"
           /\ pager_io' = Remove(pager_io, i)
           /\ syncing' = FALSE
           /\ completed' = Append(completed, Completed("sync", 0, 0, 0, 0))
    /\ UNCHANGED <<pc, pages, write_counter, wal_io, submitted, pagerRest>>

\* page 1 and page 2, each not read yet or read and changed
PagerPages ==
    {<<NewPage(1, TRUE), DirtyPage(2, PagePattern(ChecksummedLen, 2))>>,
     <<DirtyPage(1, PagePattern(ChecksummedLen, 1)), NewPage(2, FALSE)>>,
     <<NewPage(1, TRUE), NewPage(2, TRUE)>>}

InitPager ==
    /\ harness = "pager"
    /\ pc = "run"
    /\ pages \in PagerPages
    /\ wal_header = WalHeader(WAL_MAGIC_LE, U32(3007000), U32(ChecksummedLen), U32(0), U32(1),
                              U32(2), U32(0), U32(0))
    /\ cumulative = FrameSeeds[1]
    /\ target_endian = "little"
    /\ wal_file = <<>>
    /\ WalRunIdle

NextPager ==
    \/ BeginReadPage \/ ReadPageComplete
    \/ BeginReadWalFrame \/ ReadWalFrameComplete
    \/ BeginWriteBtreePage \/ WritePageComplete
    \/ BeginWriteWalFrame \/ WalWriteComplete
    \/ BeginSync \/ SyncComplete

SpecPager == InitPager /\ [][NextPager]_vars

\* the step fires the completion of a write that was short
ShortWriteFires ==
    /\ harness = "pager"
    /\ Len(completed') = Len(completed) + 1
    /\ completed'[Len(completed')].kind \in {"write", "frame"}
    /\ completed'[Len(completed')].bytes_written < completed'[Len(completed')].buf_len

\* the requests in flight
InFlight == Len(pager_io) + Len(wal_io)

\* C27: when a page write or a WAL-frame write completes short, the shortage is surfaced
\* and the write is not retried; the completion does not mark the page clean, its dirty
\* flag stays set.
C27_ShortWriteKeepsDirty ==
    [][ShortWriteFires =>
           /\ InFlight' = InFlight - 1
           /\ pages'[completed'[Len(completed')].page].dirty
                  = pages[completed'[Len(completed')].page].dirty]_vars

\* what holds of the code: no request is submitted again, and the page is clean after the
\* completion of a short write
C27_ShortWriteClearsDirty ==
    [][ShortWriteFires =>
           /\ InFlight' = InFlight - 1
           /\ ~pages'[completed'[Len(completed')].page].dirty]_vars

\* the writes in flight: accepted by the I/O layer, their completions not fired
WritesInFlight ==
    Len(SelectSeq(pager_io, LAMBDA r : r.kind = "write"))
        + Len(SelectSeq(wal_io, LAMBDA r : r.kind = "frame"))

SyncInFlight == \E i \in 1..Len(pager_io) : pager_io[i].kind = "sync"

\* the writes and the syncs the I/O layer rejected
RejectedWrites ==
    Len(SelectSeq(submitted, LAMBDA c : c.kind = "write" /\ ~c.accepted))
        + Len(SelectSeq(frames, LAMBDA c : c.returned.st # "ok"))

SyncRejected == \E i \in 1..Len(submitted) : submitted[i].kind = "sync" /\ ~submitted[i].accepted

\* C29: after any interleaving of write submissions, sync submissions and completions,
\* submissions the I/O layer rejects included, write_counter is the number of accepted
\* writes whose completion has not fired (it returns to 0 when none is outstanding and is
\* never below 0), and syncing is true exactly while an accepted sync awaits its
\* completion.
C29_CounterIsInFlight ==
    harness = "pager" =>
        /\ write_counter = WritesInFlight
        /\ write_counter >= 0
        /\ syncing = SyncInFlight

\* what holds of the code: the counter also counts the writes the I/O layer rejected, and
\* syncing stays true once a sync has been rejected
C29_CounterCountsRejected ==
    harness = "pager" =>
        /\ write_counter = WritesInFlight + RejectedWrites
        /\ syncing = (SyncInFlight \/ SyncRejected)

\* the step changes the contents or the loaded flag of the page p
Touched(p) ==
    pages'[p].contents # pages[p].contents \/ pages'[p].loaded # pages[p].loaded

\* the step fires the completion of a read of the page p
ReadFires(p) ==
    /\ Len(completed') = Len(completed) + 1
    /\ completed'[Len(completed')].kind \in {"read", "read_frame"}
    /\ completed'[Len(completed')].page = p
    /\ InFlight' = InFlight - 1

\* the reads of the page p that have completed
ReadsOf(p) == SelectSeq(completed, LAMBDA c : c.kind \in {"read", "read_frame"} /\ c.page = p)

\* the page p is as the completion of its last read left it
AsRead(p) ==
    LET last == ReadsOf(p)[Len(ReadsOf(p))]
    IN  /\ pages[p].contents.some
        /\ pages[p].contents.v.buffer = IF last.kind = "read" THEN DiskBytes ELSE WalFrameBytes
        /\ pages[p].contents.v.offset = IF pages[p].id = 1 THEN 100 ELSE 0
        /\ pages[p].uptodate /\ pages[p].loaded /\ ~pages[p].locked

\* C30: a page becomes loaded only through the completion of its read: between
\* begin_read_page (or begin_read_wal_frame) and the completion the contents and the
\* loaded flag of the page are untouched; after the completion the page has contents
\* backed by the buffer read, is up to date, loaded and unlocked, and the offset of its
\* B-tree header is 100 when the page number is 1 and 0 otherwise.
C30_LoadedByCompletion ==
    /\ [][harness = "pager" => \A p \in 1..Len(pages) : Touched(p) => ReadFires(p)]_vars
    /\ [](harness = "pager" => \A p \in 1..Len(pages) : ReadsOf(p) # <<>> => AsRead(p))

\* page 1, not read before and locked, has been read from the database file while a read
\* of page 2 is in flight: page 1 is loaded with its header at 100, page 2 is not
C30_Witness ==
    /\ harness = "pager"
    /\ Len(ReadsOf(1)) = 1 /\ ReadsOf(1)[1].kind = "read"
    /\ pages[1].loaded /\ pages[1].contents.some /\ pages[1].contents.v.offset = 100
    /\ pages[1].contents.v.buffer = DiskBytes /\ ~pages[1].locked /\ ~pages[1].dirty
    /\ Len(wal_io) = 1 /\ wal_io[1].kind = "read_frame" /\ wal_io[1].page = 2
    /\ ~pages[2].loaded /\ ~pages[2].contents.some

----------------------------------------------------------------------------
(* The dump of the shell, cli/app.rs.  A table of the schema is the number *)
(* of rows dump_table writes and the error, if any, that reading it ends    *)
(* with; a line of output is its text and the table and row it belongs to.  *)

MaxTables == 3
MaxRows == 1

Line(text, table, row) == [text |-> text, table |-> table, row |-> row]
CorruptionMarker == Line("/****** CORRUPTION ERROR *******/", 0, 0)
Commit == Line("COMMIT;", 0, 0)
ErrorLine(e) == Line("/****** ERROR: {} ******/", 0, IF e = "Corrupt" THEN 1 ELSE 0)

Table(rows, fault) == [rows |-> rows, fault |-> fault]

\* what a macro or a function leaves: it went through with the value res, or a ? inside it
\* returned err from the function around it; in both cases the lines written so far
Through(res, lines) == [returned |-> FALSE, res |-> res, err |-> "none", out |-> lines]
Returned(err, lines) == [returned |-> TRUE, res |-> "none", err |-> err, out |-> lines]

\* dump_table(name): the INSERT lines of the rows read before the error, if any
dump_table(k, t, lines) ==
    LET inserts == [i \in 1..t.rows |-> Line("INSERT INTO {} VALUES({});", k, i)]
    IN  IF t.fault = "none" THEN Through("Ok", lines \o inserts)
        ELSE Returned(t.fault, lines \o inserts)

RECURSIVE query_internal(_, _, _, _)
\* query_internal!(self, query, |row| { write the sql of the table; self.dump_table(name) })
\* from the k-th row of the schema on: rows.step()? and $body(row)? return their error from
\* dump_database, and the value of the block is Ok(())
query_internal(ts, fault, k, lines) ==
    IF k > Len(ts)
        THEN IF fault \in {"Corrupt", "Other"} THEN Returned(fault, lines)
             ELSE Through("Ok", lines)
        ELSE LET body == dump_table(k, ts[k], Append(lines, Line("{};", k, 0)))
             IN  IF body.returned THEN Returned(body.err, body.out)
                 ELSE query_internal(ts, fault, k + 1, body.out)

\* dump_database()
dump_database(ts, fault) ==
    LET begun == <<Line("PRAGMA foreign_keys=OFF;", 0, 0), Line("BEGIN TRANSACTION;", 0, 0)>>
        q == query_internal(ts, fault, 1, begun)
    IN  IF q.returned THEN Returned(q.err, q.out)
        ELSE IF q.res = "Corrupt" THEN Returned("Corrupt", Append(q.out, CorruptionMarker))
        ELSE IF q.res # "Ok" THEN Returned(q.res, q.out)
        ELSE IF fault = "Close" THEN Returned("Other", q.out)
        ELSE Through("Ok", Append(q.out, Commit))

\* Command::Dump of handle_dot_command
handle_dump(ts, fault) ==
    LET d == dump_database(ts, fault)
    IN  IF d.returned THEN [d EXCEPT !.out = Append(d.out, ErrorLine(d.err))] ELSE d

Faults == {"none", "Corrupt", "Other"}

DumpTables ==
    UNION {[1..n -> {Table(rows, fault) : rows \in 0..MaxRows, fault \in Faults}] :
               n \in 0..MaxTables}

InitDump ==
    /\ harness = "dump"
    /\ pc = "input"
    /\ tables \in DumpTables
    /\ schema_fault \in Faults \cup {"Close"}
    /\ out = <<>>
    /\ dump_result = "none"
    /\ FrameIdle /\ LogIdle /\ PagerIdle
    /\ CodecIdle /\ OverflowIdle /\ PageIdle /\ HeaderIdle /\ WriteHeaderIdle /\ WalIdle

\* the shell runs .dump
Dump ==
    /\ harness = "dump"
    /\ pc = "input"
    /\ out' = out \o handle_dump(tables, schema_fault).out
    /\ dump_result' = LET d == handle_dump(tables, schema_fault)
                      IN  IF d.returned THEN d.err ELSE d.res
    /\ pc' = "done"
    /\ UNCHANGED <<harness, tables, schema_fault, frameVars, logVars, pagerVars, codecVars,
                   overflowVars, pageVars, headerVars, writeHeaderVars, walVars>>

NextDump == Dump

SpecDump == InitDump /\ [][NextDump]_vars

\* the first error the dump meets: that of the first table that has one, else that of
\* the schema query, else none
FirstError ==
    IF \E k \in 1..Len(tables) : tables[k].fault # "none"
        THEN tables[CHOOSE k \in 1..Len(tables) :
                        /\ tables[k].fault # "none"
                        /\ \A j \in 1..(k - 1) : tables[j].fault = "none"].fault
        ELSE IF schema_fault \in {"Corrupt", "Other"} THEN schema_fault ELSE "none"

Written(line) == \E i \in 1..Len(out) : out[i] = line

DumpDone == harness = "dump" /\ pc = "done"

\* C28: when the dump exporter meets a Corrupt error it writes the corruption marker line
\* and continues, so that the remaining output, ending with COMMIT, is still emitted; any
\* other error ends the dump without the marker.
C28_CorruptIsMarked ==
    DumpDone =>
        /\ FirstError = "Corrupt" => (Written(CorruptionMarker) /\ out[Len(out)] = Commit)
        /\ FirstError = "Other" => (~Written(CorruptionMarker) /\ ~Written(Commit))

\* what holds of the code: the marker is never written; every error, Corrupt or not, ends
\* the dump with the error line of the shell and without COMMIT
C28_EveryErrorEndsDump ==
    DumpDone =>
        /\ ~Written(CorruptionMarker)
        /\ FirstError # "none" =>
               /\ dump_result = FirstError
               /\ out[Len(out)] = ErrorLine(FirstError)
               /\ ~Written(Commit)
        /\ (FirstError = "none" /\ schema_fault # "Close") =>
               (dump_result = "Ok" /\ out[Len(out)] = Commit)

====
